---- MODULE Spec2Model ----
(***************************************************************************)
(* A model of tokenator: the store token client (GenerateStoreToken), the  *)
(* paginated, concurrent personal-access-token listing (PATClient.List)    *)
(* and the Manager's Process loop with its rotation/cleanup of tokens.     *)
(*                                                                         *)
(* Strings are TLA+ strings; Sprintf is string concatenation and           *)
(* strings.Contains is a search over every offset.  Remote services are    *)
(* the environment: every reply is drawn from a small set of replies.      *)
(***************************************************************************)
EXTENDS Integers, Sequences, FiniteSets, TLC

VARIABLES
    \* ---- StoreClient.GenerateStoreToken (one call) ----
    stPc,         \* "idle" | "root" | "discharge" | "done"
    stIn,         \* the call's arguments [snap, track, channel]
    stReqs,       \* HTTP requests sent by the call, in order
    stRoot,       \* the root macaroon once obtained and parsed
    stReplies,    \* the replies received so far, in order
    stResult,     \* what the call returned
    \* ---- PATClient.List (one call) ----
    lPc,          \* "idle" | "wait" | "done"
    lPages,       \* the account's listing: a sequence of pages
    lFilter,      \* List's filter argument
    accessTokens, \* the slice shared by List and its page tasks
    lTask,        \* per page 2..N: the page task's position and locals
    lFetched,     \* per page: how many times it has been fetched
    lResult,      \* what List returned
    \* ---- Manager.Process (a sequence of runs against one account) ----
    pc,           \* position inside the current run
    run,          \* number of Manager runs started so far
    config,       \* Manager.config
    mid,          \* Manager.id, the run identifier
    pFilter,      \* Process's filter argument
    repos,        \* the filtered repositories, tracks defaulted
    ri, ti,       \* index of the repository / track being processed
    pats,         \* the listing taken at the start of the run
    ci,           \* index into pats inside the cleanup loop
    pat,          \* the token created for the current track
    result,       \* "none" | "ok" | "err" | "panic"
    failed,       \* whether a step of the current run has failed
    log,          \* requests issued by the current run, in order
    returned,     \* what Process returned in the earlier runs, by run
    tokens,       \* server: every token the bot account ever had, by id
    envs,         \* server: the repositories' environments
    secrets       \* server: the environments' secrets

stVars == <<stPc, stIn, stReqs, stRoot, stReplies, stResult>>
lVars == <<lPc, lPages, lFilter, accessTokens, lTask, lFetched, lResult>>
runVars == <<pc, run, config, mid, pFilter, repos, ri, ti, pats, ci, pat, result, failed, log,
             returned>>
srvVars == <<tokens, envs, secrets>>

VARIABLES
    \* ---- RepoClient.SetEnvSecret (a sequence of calls) ----
    rcCall,       \* the last SetEnvSecret call: arguments, requests, outcome
    rcCount,      \* number of SetEnvSecret calls made so far
    \* ---- OrgClient.ApprovePATRequest (one call) ----
    ocPc,         \* "idle" | "client" | "list" | "scan" | "review" | "done"
    ocRepo,       \* the call's repo argument
    ocPending,    \* server: the org's pending approval requests, in listing order
    ocReqs,       \* what listPATRequests returned
    ocIdx,        \* findPATRequest's position in its loop
    ocFetched,    \* ids of the requests whose repository list was fetched
    ocReviews,    \* ids of the requests an approve review was sent for
    ocResult,     \* "none" | "ok" | "err"
    \* ---- the command: main and rootCmd.RunE ----
    cmdPc,        \* "idle" | "config" | "creds" | "manager" | "exit"
    cmdMissing,   \* the required credentials that are not set in the environment
    cmdLog,       \* what was logged with slog.Error, in order
    cmdExit,      \* the process's exit status, -1 while it runs
    \* ---- PATClient: the session and a sequence of operations ----
    psPc,         \* "idle" | "login" | "body"
    psOp,         \* the operation in progress or just finished
    psAuth,       \* the cookie jar holds a logged-in session
    psReqs,       \* every request the client has sent, in order
    psCount,      \* number of operations started
    psResult,     \* what the last operation returned
    psTokens,     \* server: names of the tokens created through the form
    \* ---- OrgClient.client and GetAppToken (a sequence of calls) ----
    atPc,           \* "idle" | "jwt" | "installations" | "token" | "done"
    atCalls,        \* number of ApprovePATRequest calls made on the OrgClient
    atJwt,          \* the assertion signed for the current GetAppToken call
    atUrl,          \* the access token URL getAppTokenEndpoint returned
    atReqs,         \* the requests of the current GetAppToken call, in order
    atReplies,      \* the replies to them, in order
    atResult,       \* what the current call's oc.client() returned
    atMinted,       \* server: the installation tokens minted so far
    ocGithubClient, \* OrgClient.githubClient: "nil" or the client's token
    ocToken         \* OrgClient.token

rcVars == <<rcCall, rcCount>>
cmdVars == <<cmdPc, cmdMissing, cmdLog, cmdExit>>
psVars == <<psPc, psOp, psAuth, psReqs, psCount, psResult, psTokens>>
ocVars == <<ocPc, ocRepo, ocPending, ocReqs, ocIdx, ocFetched, ocReviews, ocResult>>
appVars == <<atPc, atCalls, atJwt, atUrl, atReqs, atReplies, atResult, atMinted,
             ocGithubClient, ocToken>>
\* the components that are also exercised on their own
compVars == <<rcVars, ocVars, cmdVars, psVars, appVars>>
vars == <<stVars, lVars, runVars, srvVars, compVars>>

----------------------------------------------------------------------------
(* Strings *)

\* strings.Contains(s, sub)
Contains(s, sub) ==
    \E i \in 1..(Len(s) - Len(sub) + 1) : SubSeq(s, i, i + Len(sub) - 1) = sub

\* strings.ToUpper on the two channel names
ToUpper(s) ==
    CASE s = "candidate" -> "CANDIDATE"
      [] s = "stable" -> "STABLE"
      [] OTHER -> s

\* strings.ToLower, character by character (ASCII letters)
UpperLetters == "ABCDEFGHIJKLMNOPQRSTUVWXYZ"
LowerLetters == "abcdefghijklmnopqrstuvwxyz"

LowerChar(c) ==
    IF \E k \in 1..Len(UpperLetters) : SubSeq(UpperLetters, k, k) = c
    THEN LET k == CHOOSE k \in 1..Len(UpperLetters) : SubSeq(UpperLetters, k, k) = c
         IN  SubSeq(LowerLetters, k, k)
    ELSE c

RECURSIVE LowerFrom(_, _)
LowerFrom(s, i) ==
    IF i > Len(s) THEN "" ELSE LowerChar(SubSeq(s, i, i)) \o LowerFrom(s, i + 1)

ToLower(s) == LowerFrom(s, 1)

\* fmt.Sprintf(format) with no operands: text is copied; a "%", its flags,
\* width and precision, and the verb c after them become "%!c(MISSING)",
\* "%%" becomes "%", and a "%" that ends the format becomes "%!(NOVERB)"
RECURSIVE SkipFlags(_, _)
SkipFlags(s, i) ==
    IF i <= Len(s) /\ \E k \in 1..Len("+-# 0123456789.") :
                            SubSeq("+-# 0123456789.", k, k) = SubSeq(s, i, i)
    THEN SkipFlags(s, i + 1)
    ELSE i

RECURSIVE SprintfFrom(_, _)
SprintfFrom(format, i) ==
    IF i > Len(format) THEN ""
    ELSE IF SubSeq(format, i, i) # "%"
    THEN SubSeq(format, i, i) \o SprintfFrom(format, i + 1)
    ELSE LET v == SkipFlags(format, i + 1)
         IN  IF v > Len(format) THEN "%!(NOVERB)"
             ELSE IF SubSeq(format, v, v) = "%" THEN "%" \o SprintfFrom(format, v + 1)
             ELSE "%!" \o SubSeq(format, v, v) \o "(MISSING)" \o SprintfFrom(format, v + 1)

\* fmt.Errorf(format).Error() with no operands
Errorf(format) == SprintfFrom(format, 1)

\* the index of the first "/" of s at or after position i, or Len(s) + 1
RECURSIVE SlashFrom(_, _)
SlashFrom(s, i) ==
    IF i > Len(s) THEN i
    ELSE IF SubSeq(s, i, i) = "/" THEN i
    ELSE SlashFrom(s, i + 1)

\* url.Parse(u).Host for an absolute https URL
UrlHost(u) ==
    LET rest == SubSeq(u, Len("https://") + 1, Len(u))
    IN  SubSeq(rest, 1, SlashFrom(rest, 1) - 1)

----------------------------------------------------------------------------
(* Store client: src/unnamed/part_000 *)

SNAP_STORE_BASE_URL == "https://dashboard.snapcraft.io"
AUTH_URL == "https://login.ubuntu.com"
AUTH_TOKENS == "/dev/api/acl/"
AUTH_TOKENS_EXCHANGE == "/api/v2/tokens/discharge"

StoreLogin == "store-login"
StorePassword == "store-password"

\* faulty variant: every known channel gets the candidate permissions
ChannelPermissionsBroad(channel) ==
    IF channel \in {"candidate", "stable"}
    THEN <<TRUE, <<"package_access", "package_push", "package_update", "package_release">>>>
    ELSE <<FALSE, <<>>>>

\* faulty variant: an unknown channel falls back to the stable permissions
ChannelPermissionsDefaulting(channel) ==
    IF channel = "candidate"
    THEN <<TRUE, <<"package_access", "package_push", "package_update", "package_release">>>>
    ELSE <<TRUE, <<"package_access", "package_release">>>>

\* channelPermissions: the ACLs per channel; no entry for any other channel

channelPermissions(channel) ==
    CASE channel = "candidate" ->
            <<TRUE, <<"package_access", "package_push", "package_update", "package_release">>>>
      [] channel = "stable" ->
            <<TRUE, <<"package_access", "package_release">>>>
      [] OTHER -> <<FALSE, <<>>>>

\* NewSnapPackage
NewSnapPackage(name) == [Name |-> name, Type |-> "snap"]

\* the one-year TTL, in seconds
TTL == 31536000

\* GenerateStoreToken's tokenParams turned into login's tokenRequest
TokenRequest(snap, track, channel) ==
    [ Permissions |-> channelPermissions(channel)[2],
      Description |-> "tokenator-" \o snap \o "-" \o track,
      TTL         |-> TTL,
      Packages    |-> <<NewSnapPackage(snap)>>,
      Channels    |-> <<track \o "/" \o channel>> ]

\* the POST that getRootMacaroon sends
RootRequest(snap, track, channel) ==
    [ url  |-> SNAP_STORE_BASE_URL \o AUTH_TOKENS,
      kind |-> "root",
      body |-> TokenRequest(snap, track, channel) ]

\* the POST that getDischargedMacaroon sends
DischargeRequest(caveatId) ==
    [ url  |-> AUTH_URL \o AUTH_TOKENS_EXCHANGE,
      kind |-> "discharge",
      body |-> [Email |-> StoreLogin, Password |-> StorePassword, CaveatId |-> caveatId] ]

\* macaroon.MarshalBinary / UnmarshalBinary and the two base64 alphabets,
\* as tagged values: decoding undoes only the matching encoding.
MarshalBinary(mac) == [bin |-> "macaroon", mac |-> mac]
GarbageBytes == [bin |-> "garbage", mac |-> [caveats |-> <<>>, sig |-> "none"]]
RawURLEncode(bytes) == [enc |-> "rawurl", bytes |-> bytes]
StdEncode(bytes) == [enc |-> "std", bytes |-> bytes]
NotBase64 == [enc |-> "invalid", bytes |-> GarbageBytes]
\* a JSON field that is not in the body (gjson's Exists() is false)
Absent == [enc |-> "absent", bytes |-> GarbageBytes]

\* slices.IndexFunc(root.Caveats(), c.Location == host): 1-based, 0 for "none"
RECURSIVE IndexFrom(_, _, _)
IndexFrom(caveats, host, i) ==
    IF i > Len(caveats) THEN 0
    ELSE IF caveats[i].Location = host THEN i
    ELSE IndexFrom(caveats, host, i + 1)

\* faulty variant: takes the first third-party caveat, whatever its location
CaveatIndexAnyLocation(caveats, host) ==
    IF \E i \in 1..Len(caveats) : caveats[i].Location # ""
    THEN CHOOSE i \in 1..Len(caveats) :
            /\ caveats[i].Location # ""
            /\ \A k \in 1..(i - 1) : caveats[k].Location = ""
    ELSE 0

CaveatIndex(caveats, host) == IndexFrom(caveats, host, 1)

\* StoreClient.post: the transport either fails or hands back the reply
\* whatever its status.  StoreClient.deserializeMacaroon: the named field
\* must exist, base64-decode (raw URL alphabet) and unmarshal.
DeserializeMacaroon(reply, field) ==
    IF reply.transportError THEN [ok |-> FALSE, mac |-> GarbageBytes.mac]
    ELSE IF reply.body[field].enc = "absent" THEN [ok |-> FALSE, mac |-> GarbageBytes.mac]
    ELSE LET v == reply.body[field]
         IN  IF v.enc # "rawurl" \/ v.bytes.bin # "macaroon"
             THEN [ok |-> FALSE, mac |-> GarbageBytes.mac]
             ELSE [ok |-> TRUE, mac |-> v.bytes.mac]

\* faulty variant: the two macaroons change places
NewUbuntuOneTokenSwapped(root, discharge) ==
    [ t |-> "u1-macaroon",
      v |-> [ r |-> RawURLEncode(MarshalBinary(discharge)),
              d |-> RawURLEncode(MarshalBinary(root)) ] ]

\* NewUbuntuOneToken, json.Marshal and the final base64 of login
NewUbuntuOneToken(root, discharge) ==
    [ t |-> "u1-macaroon",
      v |-> [ r |-> RawURLEncode(MarshalBinary(root)),
              d |-> RawURLEncode(MarshalBinary(discharge)) ] ]

EncodeToken(root, discharge) ==
    StdEncode([json |-> NewUbuntuOneToken(root, discharge)])

\* a plain string used as a secret value (kept in the shape of a token)
Plain(str) == [enc |-> "plain", bytes |-> [json |-> [t |-> str, v |-> [r |-> Absent, d |-> Absent]]]]

\* the empty string GenerateStoreToken returns beside an error
NoToken == Plain("")

NoMacaroon == [caveats |-> <<>>, sig |-> "none"]

\* ---- replies of the store and of the authentication authority ----
AuthCaveat == [Location |-> "login.ubuntu.com", Id |-> "cid-auth"]
AuthCaveat2 == [Location |-> "login.ubuntu.com", Id |-> "cid-auth-2"]
FirstPartyCaveat == [Location |-> "", Id |-> "package_id-1"]
OtherCaveat == [Location |-> "auth.example.com", Id |-> "cid-other"]

RootMacs ==
    { [caveats |-> <<AuthCaveat>>, sig |-> "root"],
      [caveats |-> <<FirstPartyCaveat, OtherCaveat, AuthCaveat, AuthCaveat2>>, sig |-> "root"],
      [caveats |-> <<>>, sig |-> "root"],
      [caveats |-> <<FirstPartyCaveat, OtherCaveat>>, sig |-> "root"] }
DischargeMac == [caveats |-> <<>>, sig |-> "discharge"]

Reply(status, m, d) ==
    [transportError |-> FALSE, status |-> status, body |-> [macaroon |-> m, discharge_macaroon |-> d]]
TransportError ==
    [transportError |-> TRUE, status |-> 0, body |-> [macaroon |-> Absent, discharge_macaroon |-> Absent]]

RootReplies ==
    {TransportError}
    \cup {Reply(200, RawURLEncode(MarshalBinary(m)), Absent) : m \in RootMacs}
    \cup {Reply(st, v, Absent) : st \in {200, 401}, v \in {Absent}}
    \cup {Reply(200, v, Absent) : v \in {NotBase64, RawURLEncode(GarbageBytes)}}
    \cup {Reply(401, RawURLEncode(MarshalBinary(m)), Absent) : m \in RootMacs}

DischargeReplies ==
    {TransportError}
    \cup {Reply(st, Absent, v) :
            st \in {200, 401},
            v \in {Absent, RawURLEncode(MarshalBinary(DischargeMac))}}
    \cup {Reply(200, Absent, StdEncode(MarshalBinary(DischargeMac)))}
    \cup {Reply(200, Absent, RawURLEncode(MarshalBinary(
                [caveats |-> <<FirstPartyCaveat>>, sig |-> "discharge-2"])))}

\* ---- the call, step by step ----

\* GenerateStoreToken up to login's first POST: an unknown channel is
\* refused, otherwise the root request goes out.
StoreBegin(snap, track, channel) ==
    IF ~channelPermissions(channel)[1]
    THEN [kind |-> "err", reqs |-> <<>>]
    ELSE [kind |-> "send", reqs |-> <<RootRequest(snap, track, channel)>>]

\* getRootMacaroon's reply handling, then getDischargedMacaroon up to its
\* POST.  root.Caveats()[idx] with idx = -1 is an index out of range: the
\* goroutine panics.
StoreAfterRoot(reply) ==
    LET got == DeserializeMacaroon(reply, "macaroon")
        idx == CaveatIndex(got.mac.caveats, UrlHost(AUTH_URL))
    IN  IF ~got.ok THEN [kind |-> "err", reqs |-> <<>>, root |-> NoMacaroon]
        ELSE IF idx = 0 THEN [kind |-> "panic", reqs |-> <<>>, root |-> got.mac]
        ELSE [kind |-> "send",
              reqs |-> <<DischargeRequest(got.mac.caveats[idx].Id)>>,
              root |-> got.mac]

\* getDischargedMacaroon's reply handling and the rest of login
StoreAfterDischarge(root, reply) ==
    LET got == DeserializeMacaroon(reply, "discharge_macaroon")
    IN  IF ~got.ok THEN [kind |-> "err", token |-> NoToken]
        ELSE [kind |-> "ok", token |-> EncodeToken(root, got.mac)]

\* GenerateStoreToken as a function of the two replies
GenerateStoreToken(snap, track, channel, rootReply, dischargeReply) ==
    LET b == StoreBegin(snap, track, channel)
        r == StoreAfterRoot(rootReply)
        d == StoreAfterDischarge(r.root, dischargeReply)
    IN  IF b.kind # "send" THEN [kind |-> b.kind, token |-> NoToken, reqs |-> b.reqs]
        ELSE IF r.kind # "send" THEN [kind |-> r.kind, token |-> NoToken, reqs |-> b.reqs]
        ELSE [kind |-> d.kind, token |-> d.token, reqs |-> b.reqs \o r.reqs]

StoreSnaps == {"app", "my-app"}
StoreTracks == {"latest", "7.x"}
StoreChannels == {"candidate", "stable", "edge", ""}

StoreIdle ==
    /\ stPc = "idle"
    /\ stIn = [snap |-> "", track |-> "", channel |-> ""]
    /\ stReqs = <<>>
    /\ stRoot = NoMacaroon
    /\ stReplies = <<>>
    /\ stResult = [kind |-> "none", token |-> NoToken]

\* the caller invokes GenerateStoreToken(snap, track, channel)
StoreCall ==
    /\ stPc = "idle"
    /\ \E snap \in StoreSnaps, track \in StoreTracks, channel \in StoreChannels :
        LET b == StoreBegin(snap, track, channel)
        IN  /\ stIn' = [snap |-> snap, track |-> track, channel |-> channel]
            /\ stReqs' = stReqs \o b.reqs
            /\ stPc' = IF b.kind = "send" THEN "root" ELSE "done"
            /\ stResult' = IF b.kind = "send" THEN stResult
                           ELSE [kind |-> b.kind, token |-> NoToken]
    /\ UNCHANGED <<stRoot, stReplies>>
    /\ UNCHANGED <<lVars, runVars, srvVars, compVars>>

\* the store answers the root request
StoreRootReply ==
    /\ stPc = "root"
    /\ \E reply \in RootReplies :
        LET r == StoreAfterRoot(reply)
        IN  /\ stReplies' = Append(stReplies, reply)
            /\ stReqs' = stReqs \o r.reqs
            /\ stRoot' = r.root
            /\ stPc' = IF r.kind = "send" THEN "discharge" ELSE "done"
            /\ stResult' = IF r.kind = "send" THEN stResult
                           ELSE [kind |-> r.kind, token |-> NoToken]
    /\ UNCHANGED stIn
    /\ UNCHANGED <<lVars, runVars, srvVars, compVars>>

\* the authority answers the discharge request
StoreDischargeReply ==
    /\ stPc = "discharge"
    /\ \E reply \in DischargeReplies :
        LET d == StoreAfterDischarge(stRoot, reply)
        IN  /\ stReplies' = Append(stReplies, reply)
            /\ stResult' = [kind |-> d.kind, token |-> d.token]
    /\ stPc' = "done"
    /\ UNCHANGED <<stIn, stReqs, stRoot>>
    /\ UNCHANGED <<lVars, runVars, srvVars, compVars>>

NextStore ==
    \/ StoreCall
    \/ StoreRootReply
    \/ StoreDischargeReply

----------------------------------------------------------------------------
(* Properties of GenerateStoreToken *)

AuthHost == "login.ubuntu.com"

\* the call got a reply carrying a status outside 2xx
NonSuccessReply == \E i \in 1..Len(stReplies) :
    ~stReplies[i].transportError /\ stReplies[i].status \notin 200..299

\* the call obtained and parsed a root token without a caveat for the authority
RootWithoutAuthCaveat ==
    /\ Len(stReplies) >= 1
    /\ ~stReplies[1].transportError
    /\ stReplies[1].body.macaroon = RawURLEncode(MarshalBinary(stRoot))
    /\ \A i \in 1..Len(stRoot.caveats) : stRoot.caveats[i].Location # AuthHost

\* C6: for every channel other than "candidate" and "stable" the call
\* returns an error and sends no HTTP request at all.
C6_UnknownChannelNoRequest ==
    (stPc # "idle" /\ stIn.channel \notin {"candidate", "stable"})
        => (stPc = "done" /\ stResult.kind = "err" /\ stResult.token = NoToken /\ stReqs = <<>>)

C6_Witness ==
    stPc = "done" /\ stIn.channel = "edge" /\ stResult.kind = "err" /\ stReqs = <<>>

\* C7: the root request's permissions are a function of the channel alone
\* (four for candidate, access+release for stable), it names exactly one
\* package, the snap, and exactly one channel, "<track>/<channel>".
C7_RequestShape ==
    \A i \in 1..Len(stReqs) : stReqs[i].kind = "root" =>
        LET b == stReqs[i].body
            perms == {b.Permissions[k] : k \in 1..Len(b.Permissions)}
        IN  /\ stIn.channel = "candidate" =>
                /\ perms = {"package_access", "package_push", "package_update", "package_release"}
                /\ Len(b.Permissions) = 4
            /\ stIn.channel = "stable" =>
                /\ perms = {"package_access", "package_release"}
                /\ Len(b.Permissions) = 2
            /\ stIn.channel \in {"candidate", "stable"}
            /\ Len(b.Packages) = 1
            /\ b.Packages[1].Name = stIn.snap
            /\ b.Packages[1].Type = "snap"
            /\ Len(b.Channels) = 1
            /\ Len(b.Channels[1]) = Len(stIn.track) + 1 + Len(stIn.channel)
            /\ SubSeq(b.Channels[1], 1, Len(stIn.track)) = stIn.track
            /\ SubSeq(b.Channels[1], Len(stIn.track) + 1, Len(stIn.track) + 1) = "/"
            /\ SubSeq(b.Channels[1], Len(stIn.track) + 2, Len(b.Channels[1])) = stIn.channel

C7_Witness ==
    /\ Len(stReqs) >= 1
    /\ stReqs[1].kind = "root"
    /\ stIn.channel = "stable"
    /\ stIn.snap = "my-app"
    /\ stReqs[1].body.Channels = <<"7.x/stable">>

\* C8 as claimed: a root token without a caveat for the authority makes the
\* call return an error, with no discharge request sent.
C8_Original ==
    (stPc = "done" /\ RootWithoutAuthCaveat)
        => (stResult.kind = "err" /\ Len(stReqs) = 1)

\* C9 as claimed: after any non-2xx reply the call returns an error and no
\* credential (the runs that end in a crash are left aside here).
C9_Original ==
    (stPc = "done" /\ NonSuccessReply /\ stResult.kind # "panic")
        => (stResult.kind = "err" /\ stResult.token = NoToken)

\* C10: at most one root request then at most one discharge request; the
\* discharge request follows a root reply that parsed, carries the id of a
\* caveat of that root token located at the authority, and a failed call
\* has sent no request beyond the one whose reply failed it.
C10_RequestOrder ==
    /\ Len(stReqs) <= 2
    /\ Len(stReqs) >= 1 => stReqs[1].kind = "root"
    /\ Len(stReqs) = 2 =>
        /\ stReqs[2].kind = "discharge"
        /\ Len(stReplies) >= 1
        /\ ~stReplies[1].transportError
        /\ stReplies[1].body.macaroon = RawURLEncode(MarshalBinary(stRoot))
        /\ \E k \in 1..Len(stRoot.caveats) :
            /\ stRoot.caveats[k].Location = AuthHost
            /\ stRoot.caveats[k].Id = stReqs[2].body.CaveatId
    /\ Len(stReplies) <= Len(stReqs)
    /\ stResult.kind \in {"err", "panic"} => Len(stReqs) = Len(stReplies)

C10_Witness ==
    /\ stPc = "done"
    /\ stResult.kind = "ok"
    /\ Len(stReqs) = 2
    /\ Len(stRoot.caveats) = 4
    /\ stReqs[2].body.CaveatId = "cid-auth"

\* base64.StdEncoding.DecodeString and json.Unmarshal: the envelope in a
\* credential, if it decodes
DecodeEnvelope(credential) ==
    IF credential.enc = "std" /\ DOMAIN credential.bytes = {"json"}
    THEN [ok |-> TRUE, envelope |-> credential.bytes.json]
    ELSE [ok |-> FALSE, envelope |-> [t |-> "", v |-> [r |-> Absent, d |-> Absent]]]

\* base64.RawURLEncoding.DecodeString: the bytes in a field of the envelope
DecodeField(field) ==
    IF field.enc = "rawurl" THEN [ok |-> TRUE, bytes |-> field.bytes]
    ELSE [ok |-> FALSE, bytes |-> GarbageBytes]

\* C27: the credential a successful call returns decodes (standard base64,
\* then JSON) to an envelope with t = "u1-macaroon" and v = {r, d}; r
\* decodes (raw URL base64) to the binary form of the root macaroon the
\* store sent and d to that of the discharge macaroon it sent.
C27_TokenRoundTrip ==
    (stPc = "done" /\ stResult.kind = "ok") =>
        LET e == DecodeEnvelope(stResult.token)
            root == stReplies[1].body.macaroon.bytes.mac
            discharge == stReplies[2].body.discharge_macaroon.bytes.mac
        IN  /\ e.ok
            /\ DOMAIN e.envelope = {"t", "v"}
            /\ e.envelope.t = "u1-macaroon"
            /\ DOMAIN e.envelope.v = {"r", "d"}
            /\ DecodeField(e.envelope.v.r).ok
            /\ DecodeField(e.envelope.v.r).bytes = [bin |-> "macaroon", mac |-> root]
            /\ DecodeField(e.envelope.v.d).ok
            /\ DecodeField(e.envelope.v.d).bytes = [bin |-> "macaroon", mac |-> discharge]
            /\ root = stRoot

\* a credential made of a root macaroon with four caveats and a discharge
\* macaroon with one
C27_Witness ==
    /\ stPc = "done" /\ stResult.kind = "ok"
    /\ Len(stReplies) = 2
    /\ Len(stRoot.caveats) = 4
    /\ stReplies[2].body.discharge_macaroon.bytes.mac.sig = "discharge-2"
    /\ DecodeField(DecodeEnvelope(stResult.token).envelope.v.d).bytes.mac.sig = "discharge-2"
    /\ DecodeField(DecodeEnvelope(stResult.token).envelope.v.r).bytes.mac = stRoot

----------------------------------------------------------------------------
(* PATClient.List: src/internal/gh/pat_client.go *)

MaxPages == 3

\* a token as the listing shows it: the secret value is not displayed
ListedPAT(id, name) == [ID |-> id, Name |-> name, Token |-> ""]

\* what one page of the settings UI may show; ids are unique per account
PageContents(p) ==
    { <<>>,
      <<ListedPAT(10 * p + 1, "token8r-a1b2-app-latest")>>,
      <<ListedPAT(10 * p + 1, "laptop"), ListedPAT(10 * p + 2, "token8r-c3d4-my-app-latest")>> }

\* a listing of n pages; the pagination control (data-total-pages) is
\* rendered only when there is more than one page (total = 0: absent)
Listings(n) ==
    { [p \in 1..n |-> [entries |-> c[p], total |-> IF n > 1 THEN n ELSE 0]] :
        c \in {f \in [1..n -> UNION {PageContents(p) : p \in 1..n}] :
                    \A p \in 1..n : f[p] \in PageContents(p)} }

ListFilters == {"token8r", "app"}

\* parsePATListPage: the page's entries whose name contains the filter
RECURSIVE parsePATListPage(_, _)
parsePATListPage(entries, filter) ==
    IF entries = <<>> THEN <<>>
    ELSE IF Contains(Head(entries).Name, filter)
         THEN <<Head(entries)>> \o parsePATListPage(Tail(entries), filter)
         ELSE parsePATListPage(Tail(entries), filter)

\* strconv.Atoi(AttrOr("data-total-pages", "1")) on page 1
PageCount(page) == IF page.total = 0 THEN 1 ELSE page.total

NoList == [kind |-> "none", list |-> <<>>]

ListIdle ==
    /\ lPc = "idle"
    /\ accessTokens = <<>>
    /\ lTask = <<>>
    /\ lFetched = <<>>
    /\ lResult = NoList

\* List up to errs.Wait(): the login, page 1 fetched and parsed, one task
\* started per further page.  lTask[1] stands for the caller's own fetch.
ListStart ==
    /\ lPc = "idle"
    /\ \E loggedIn \in BOOLEAN, fetched \in BOOLEAN :
        IF ~loggedIn
        THEN /\ lPc' = "done"
             /\ lResult' = [kind |-> "err", list |-> <<>>]
             /\ UNCHANGED <<accessTokens, lTask, lFetched>>
        ELSE IF ~fetched
        THEN /\ lPc' = "done"
             /\ lResult' = [kind |-> "err", list |-> <<>>]
             /\ lFetched' = [p \in 1..Len(lPages) |-> IF p = 1 THEN 1 ELSE 0]
             /\ UNCHANGED <<accessTokens, lTask>>
        ELSE /\ lPc' = "wait"
             /\ accessTokens' = parsePATListPage(lPages[1].entries, lFilter)
             /\ lFetched' = [p \in 1..Len(lPages) |-> IF p = 1 THEN 1 ELSE 0]
             /\ lTask' = [j \in 1..PageCount(lPages[1]) |->
                            [pc |-> IF j = 1 THEN "done" ELSE "fetch",
                             found |-> <<>>, seen |-> <<>>]]
             /\ UNCHANGED lResult
    /\ UNCHANGED <<lPages, lFilter>>
    /\ UNCHANGED <<stVars, runVars, srvVars, compVars>>

\* task j: getWebpage(page j) and parsePATListPage
TaskFetch(j) ==
    /\ lPc = "wait"
    /\ lTask[j].pc = "fetch"
    /\ lFetched' = [lFetched EXCEPT ![j] = @ + 1]
    /\ \E fetched \in BOOLEAN :
        lTask' = [lTask EXCEPT ![j] =
            IF fetched
            THEN [pc |-> "load", found |-> parsePATListPage(lPages[j].entries, lFilter), seen |-> <<>>]
            ELSE [pc |-> "failed", found |-> <<>>, seen |-> <<>>]]
    /\ UNCHANGED <<lPc, lPages, lFilter, accessTokens, lResult>>
    /\ UNCHANGED <<stVars, runVars, srvVars, compVars>>

\* task j: append reads the shared slice ...
TaskLoad(j) ==
    /\ lPc = "wait"
    /\ lTask[j].pc = "load"
    /\ lTask' = [lTask EXCEPT ![j].pc = "store", ![j].seen = accessTokens]
    /\ UNCHANGED <<lPc, lPages, lFilter, accessTokens, lFetched, lResult>>
    /\ UNCHANGED <<stVars, runVars, srvVars, compVars>>

\* ... and assigns the extended slice back.  No lock orders the two steps
\* of one task against those of another: the tasks race on accessTokens.
TaskStore(j) ==
    /\ lPc = "wait"
    /\ lTask[j].pc = "store"
    /\ accessTokens' = lTask[j].seen \o lTask[j].found
    /\ lTask' = [lTask EXCEPT ![j].pc = "done"]
    /\ UNCHANGED <<lPc, lPages, lFilter, lFetched, lResult>>
    /\ UNCHANGED <<stVars, runVars, srvVars, compVars>>

\* faulty variant: the call returns as soon as one task has failed
ListWaitFirstError ==
    /\ lPc = "wait"
    /\ \E j \in DOMAIN lTask : lTask[j].pc = "failed"
    /\ lPc' = "done"
    /\ lResult' = [kind |-> "err", list |-> <<>>]
    /\ UNCHANGED <<lPages, lFilter, accessTokens, lTask, lFetched>>
    /\ UNCHANGED <<stVars, runVars, srvVars, compVars>>

\* errs.Wait() returns once every task has finished; any task's error
\* fails the call
ListWait ==
    /\ lPc = "wait"
    /\ \A j \in DOMAIN lTask : lTask[j].pc \in {"done", "failed"}
    /\ lPc' = "done"
    /\ lResult' = IF \E j \in DOMAIN lTask : lTask[j].pc = "failed"
                  THEN [kind |-> "err", list |-> <<>>]
                  ELSE [kind |-> "ok", list |-> accessTokens]
    /\ UNCHANGED <<lPages, lFilter, accessTokens, lTask, lFetched>>
    /\ UNCHANGED <<stVars, runVars, srvVars, compVars>>

PageTaskFetch == \E j \in DOMAIN lTask \ {1} : TaskFetch(j)
PageTaskLoad == \E j \in DOMAIN lTask \ {1} : TaskLoad(j)
PageTaskStore == \E j \in DOMAIN lTask \ {1} : TaskStore(j)

NextList ==
    \/ ListStart
    \/ PageTaskFetch
    \/ PageTaskLoad
    \/ PageTaskStore
    \/ ListWait

----------------------------------------------------------------------------
(* Properties of PATClient.List *)

\* every entry of the account's listing whose name contains the filter
MatchingEntries ==
    { e \in UNION { {lPages[p].entries[k] : k \in 1..Len(lPages[p].entries)} :
                        p \in 1..Len(lPages) } : Contains(e.Name, lFilter) }

\* C3 as claimed: a List that returns without error returns every matching
\* entry of every page, each exactly once, whatever the interleaving.
C3_Original ==
    (lPc = "done" /\ lResult.kind = "ok") =>
        /\ {lResult.list[i] : i \in 1..Len(lResult.list)} = MatchingEntries
        /\ Len(lResult.list) = Cardinality(MatchingEntries)

\* C25: no page is fetched twice; when List has returned, every page task
\* it started has finished; an error comes with no list; if the login or
\* page 1 failed no further page was fetched, otherwise each of the pages
\* 1..N was fetched once, N being the total shown on page 1 (1 without the
\* pagination control), and the call failed exactly if a page fetch failed.
C25_ListPages ==
    /\ \A p \in DOMAIN lFetched : lFetched[p] <= 1
    /\ lPc = "done" =>
        /\ \A j \in DOMAIN lTask : lTask[j].pc \in {"done", "failed"}
        /\ lResult.kind \in {"ok", "err"}
        /\ lResult.kind = "err" => lResult.list = <<>>
        /\ IF lTask = <<>>
           THEN /\ lResult.kind = "err"
                /\ \A p \in DOMAIN lFetched : p > 1 => lFetched[p] = 0
           ELSE LET n == IF lPages[1].total = 0 THEN 1 ELSE lPages[1].total
                IN  /\ DOMAIN lTask = 1..n
                    /\ \A p \in 1..n : lFetched[p] = 1
                    /\ \A p \in DOMAIN lFetched : p > n => lFetched[p] = 0
                    /\ lResult.kind = "err" <=> \E j \in 1..n : lTask[j].pc = "failed"

\* a call over three pages: the fetch of page 2 failed, the task of page 3
\* appended its tokens, and the call returned the error without a list
C25_Witness ==
    /\ lPc = "done"
    /\ Len(lPages) = 3 /\ Len(lTask) = 3
    /\ lTask[2].pc = "failed" /\ lTask[3].pc = "done" /\ lTask[3].found # <<>>
    /\ lFetched = <<1, 1, 1>>
    /\ accessTokens # <<>>
    /\ lResult = [kind |-> "err", list |-> <<>>]

----------------------------------------------------------------------------
(* PATClient: the session, Create and Delete: src/internal/gh/pat_client.go *)

MaxOps == 3

\* one request of the client: n is the number of the operation that sent it
Req(n, kind, arg, ok) == [n |-> n, kind |-> kind, arg |-> arg, ok |-> ok]

\* where the server lets HEAD /settings/ end: on the login page unless the
\* request carries a logged-in session
HeadPath(auth) == IF auth THEN "/settings/" ELSE "/login"

\* faulty variant: the probe's result is not trusted
NeverLoggedIn(path) == FALSE

\* login's test of the probe
AlreadyLoggedIn(path) == path # "/login"

\* texts of the full-page error banner the login form may answer with
Banners ==
    { "Incorrect username or password.",
      "Too many attempts: 100% of the limit used." }

\* what may happen to login's requests: one of them fails in transport,
\* or the form is answered with a banner, or it is accepted
LoginOutcomes ==
    {[fail |-> f, banner |-> ""] : f \in {"none", "head", "page", "post"}}
        \cup {[fail |-> "none", banner |-> b] : b \in Banners}

\* PATClient.login
login(n, auth, out) ==
    LET head(ok) == Req(n, "head", "/settings/", ok)
        page(ok) == Req(n, "loginPage", "/login", ok)
        post(ok) == Req(n, "session", "/session", ok)
        R(ok, err, banner, reqs, a) ==
            [ok |-> ok, err |-> err, banner |-> banner, reqs |-> reqs, auth |-> a]
    IN  IF out.fail = "head"
        THEN R(FALSE, "failed to detect Github session login status", "", <<head(FALSE)>>, auth)
        ELSE IF AlreadyLoggedIn(HeadPath(auth))
        THEN R(TRUE, "", "", <<head(TRUE)>>, auth)
        ELSE IF out.fail = "page"
        THEN R(FALSE, "failed to parse Github login page", "",
               <<head(TRUE), page(FALSE)>>, auth)
        ELSE IF out.fail = "post"
        THEN R(FALSE, "failed to parse Github login form response", "",
               <<head(TRUE), page(TRUE), post(FALSE)>>, auth)
        ELSE IF out.banner # ""
        THEN R(FALSE, Errorf(ToLower(out.banner)), out.banner,
               <<head(TRUE), page(TRUE), post(FALSE)>>, auth)
        ELSE R(TRUE, "", "", <<head(TRUE), page(TRUE), post(TRUE)>>, TRUE)

\* List after login, for an account whose tokens fit on one page
ListBody(n, out) ==
    [ ok |-> out.fail = "none", created |-> FALSE,
      reqs |-> <<Req(n, "listPage", "1", out.fail = "none")>> ]

\* PAT.Delete after login
DeleteBody(n, id, out) ==
    [ ok |-> out.fail = "none", created |-> FALSE,
      reqs |-> <<Req(n, "deleteForm", id, out.fail = "none")>> ]

\* faulty variant: a repository that cannot be resolved is left out
ResolveSkipFailed(n, repoNames, failAt) ==
    [ ok |-> TRUE,
      reqs |-> [i \in 1..Len(repoNames) |-> Req(n, "suggest", repoNames[i], i # failAt)] ]

\* Create's loop over repoNames: getRepositoryID for each, up to the first
\* one that cannot be resolved (failAt, 0 for none)
ResolveRepos(n, repoNames, failAt) ==
    LET last == IF failAt \in 1..Len(repoNames) THEN failAt ELSE Len(repoNames)
    IN  [ ok |-> failAt \notin 1..Len(repoNames),
          reqs |-> [i \in 1..last |-> Req(n, "suggest", repoNames[i], i # failAt)] ]

\* what may happen in Create: the form page fails or lacks its
\* authenticity token, repository failAt cannot be resolved, the POST
\* fails, the server refuses (no token value in the answer), or the answer
\* lacks the token's id or its delete token
CreateOutcomes(repoNames) ==
    {[fail |-> f, failAt |-> 0] :
        f \in {"none", "form", "noAuthToken", "post", "refused", "noId", "noDelete"}}
        \cup {[fail |-> "resolve", failAt |-> k] : k \in 1..Len(repoNames)}

\* PATClient.Create after login; "created" says whether the server made
\* the token
CreateBody(n, name, repoNames, out) ==
    LET form(ok) == <<Req(n, "newForm", "/settings/personal-access-tokens/new", ok)>>
        res == ResolveRepos(n, repoNames, out.failAt)
        post(ok) == <<Req(n, "createForm", name, ok)>>
        R(ok, created, reqs) == [ok |-> ok, created |-> created, reqs |-> reqs]
    IN  IF out.fail = "form" THEN R(FALSE, FALSE, form(FALSE))
        ELSE IF out.fail = "noAuthToken" THEN R(FALSE, FALSE, form(TRUE))
        ELSE IF ~res.ok THEN R(FALSE, FALSE, form(TRUE) \o res.reqs)
        ELSE IF out.fail \in {"post", "refused"}
        THEN R(FALSE, FALSE, form(TRUE) \o res.reqs \o post(FALSE))
        ELSE IF out.fail \in {"noId", "noDelete"}
        THEN R(FALSE, TRUE, form(TRUE) \o res.reqs \o post(TRUE))
        ELSE R(TRUE, TRUE, form(TRUE) \o res.reqs \o post(TRUE))

CreateRepoLists ==
    { <<"snapcrafters/app", "snapcrafters/ci-screenshots">>,
      <<"snapcrafters/my-app", "snapcrafters/ci-screenshots", "snapcrafters/website">> }

\* the operations a client is asked to perform
PsOps ==
    { [kind |-> "list", name |-> "token8r", repos |-> <<>>],
      [kind |-> "delete", name |-> "7", repos |-> <<>>] }
        \cup {[kind |-> "create", name |-> "token8r-a1b2-app-latest", repos |-> r] :
                    r \in CreateRepoLists}

NoOp == [kind |-> "none", name |-> "", repos |-> <<>>, before |-> 0]
NoResult == [ok |-> FALSE, loginOk |-> FALSE, loginErr |-> "", banner |-> ""]

PsIdle ==
    /\ psPc = "idle"
    /\ psOp = NoOp
    /\ psAuth = FALSE
    /\ psReqs = <<>>
    /\ psCount = 0
    /\ psResult = NoResult
    /\ psTokens = <<>>

\* List, Create or Delete is called
PsBegin ==
    /\ psPc = "idle"
    /\ psCount < MaxOps
    /\ psCount' = psCount + 1
    /\ \E op \in PsOps :
        psOp' = [kind |-> op.kind, name |-> op.name, repos |-> op.repos,
                 before |-> Len(psTokens)]
    /\ psPc' = "login"
    /\ psResult' = NoResult
    /\ UNCHANGED <<psAuth, psReqs, psTokens>>
    /\ UNCHANGED <<stVars, lVars, runVars, srvVars, rcVars, ocVars, cmdVars, appVars>>

\* the operation's call of pc.login(); the operation returns its error
PsLogin ==
    /\ psPc = "login"
    /\ \E out \in LoginOutcomes :
        LET r == login(psCount, psAuth, out)
        IN  /\ psReqs' = psReqs \o r.reqs
            /\ psAuth' = r.auth
            /\ psResult' = [ok |-> FALSE, loginOk |-> r.ok, loginErr |-> r.err,
                            banner |-> r.banner]
            /\ psPc' = IF r.ok THEN "body" ELSE "idle"
    /\ UNCHANGED <<psOp, psCount, psTokens>>
    /\ UNCHANGED <<stVars, lVars, runVars, srvVars, rcVars, ocVars, cmdVars, appVars>>

\* the rest of the operation
PsBody ==
    /\ psPc = "body"
    /\ \E out \in CreateOutcomes(psOp.repos) :
        LET r == CASE psOp.kind = "list" -> ListBody(psCount, out)
                   [] psOp.kind = "delete" -> DeleteBody(psCount, psOp.name, out)
                   [] OTHER -> CreateBody(psCount, psOp.name, psOp.repos, out)
        IN  /\ (psOp.kind # "create") => out.fail \in {"none", "post"}
            /\ psReqs' = psReqs \o r.reqs
            /\ psResult' = [psResult EXCEPT !.ok = r.ok]
            /\ psTokens' = IF r.created THEN Append(psTokens, psOp.name) ELSE psTokens
    /\ psPc' = "idle"
    /\ UNCHANGED <<psOp, psAuth, psCount>>
    /\ UNCHANGED <<stVars, lVars, runVars, srvVars, rcVars, ocVars, cmdVars, appVars>>

NextPs ==
    \/ PsBegin
    \/ PsLogin
    \/ PsBody

----------------------------------------------------------------------------
(* Properties of the PATClient session, Create and Delete *)

TokenOperations == {"listPage", "newForm", "suggest", "createForm", "deleteForm"}

\* the requests of the operation in progress or just finished
OpReqs == SelectSeq(psReqs, LAMBDA r : r.n = psCount)

C18_Original ==
    /\ (psPc = "idle" /\ psResult.banner # "") =>
            /\ ~psResult.ok
            /\ psResult.loginErr = ToLower(psResult.banner)
            /\ \A j \in 1..Len(OpReqs) : OpReqs[j].kind \notin TokenOperations
    /\ \A j \in 1..Len(psReqs) : psReqs[j].kind \in TokenOperations =>
            \E i \in 1..(j - 1) : psReqs[i].kind = "session" /\ psReqs[i].ok

\* C19: Create submits the form only after one successful lookup per
\* repository of its list, in the list's order; a Create with a failed
\* lookup returns an error, submits no form and creates no token.
C19_ResolveBeforeSubmit ==
    LET sug == SelectSeq(OpReqs, LAMBDA r : r.kind = "suggest")
        posts == {j \in 1..Len(OpReqs) : OpReqs[j].kind = "createForm"}
    IN  psOp.kind = "create" =>
            /\ \A j \in posts :
                    /\ Len(sug) = Len(psOp.repos)
                    /\ \A k \in 1..Len(sug) : sug[k].ok /\ sug[k].arg = psOp.repos[k]
                    /\ \A i \in 1..Len(OpReqs) : OpReqs[i].kind = "suggest" => i < j
            /\ Cardinality(posts) <= 1
            /\ (\E k \in 1..Len(sug) : ~sug[k].ok) =>
                    /\ posts = {}
                    /\ psPc = "idle" /\ ~psResult.ok
                    /\ Len(psTokens) = psOp.before
            /\ Len(psTokens) > psOp.before => posts # {}

C19_Witness ==
    /\ psOp.kind = "create"
    /\ psPc = "idle"
    /\ Len(psOp.repos) = 3
    /\ psResult.ok
    /\ Len(psTokens) = psOp.before + 1
    /\ Len(SelectSeq(OpReqs, LAMBDA r : r.kind = "suggest" /\ r.ok)) = 3

\* C36 as claimed: a Create that has returned an error has left no token
\* on the account; when the account has the new token Create has returned
\* its record.
C36_Original ==
    (psOp.kind = "create" /\ psPc = "idle") =>
        /\ ~psResult.ok => Len(psTokens) = psOp.before
        /\ Len(psTokens) > psOp.before => psResult.ok

----------------------------------------------------------------------------
(* Configuration: src/internal/config/config.go *)

Org == "snapcrafters"
LaunchpadAuth == "lp-auth-file"

DefaultTrack == [Name |-> "latest", Branch |-> "candidate", Environment |-> "Candidate Branch"]
Track7 == [Name |-> "7.x", Branch |-> "candidate-7.x", Environment |-> "Candidate Branch 7.x"]

\* Repo.SetDefaults
SetDefaults(repo) == [repo EXCEPT !.Tracks = <<DefaultTrack>>]

\* the configurations the runs are checked with: two repositories whose
\* names contain one another, one repository with two tracks whose name is
\* made of hexadecimal digits, and one repository of another organisation
Configs ==
    { [Org |-> Org, Repos |-> << [Name |-> "my-app", Tracks |-> <<>>],
                                 [Name |-> "app", Tracks |-> <<>>] >>],
      [Org |-> Org, Repos |-> << [Name |-> "cafe", Tracks |-> <<DefaultTrack, Track7>>] >>],
      [Org |-> "acme", Repos |-> << [Name |-> "app", Tracks |-> <<>>] >>] }

\* the filters Process is called with: none, one name, and names in an
\* order other than the configuration's, one of them of no repository
Filters == { <<>>, <<"app">>, <<"ghost", "app", "cafe", "my-app">> }

\* fmt.Sprintf("%x", bs) of a sha256 sum: 64 hexadecimal digits
HexDigests ==
    { "a1b2f0c4d5e6978877665544332211000112233445566778899aabbccddeeff0",
      "cafe0123456789abcdef0123456789abcdef0123456789abcdef0123456789ab" }

\* generateID: the first four characters of the digest of the current time
generateID(digest) == SubSeq(digest, 1, 4)

\* values generateID may return
RunIds == {generateID(d) : d \in HexDigests}

MaxRuns == 2

----------------------------------------------------------------------------
(* Repository secrets: src/internal/gh/pat_client.go, RepoClient *)

\* one request of a run, as the log keeps it
Entry(op, repo, track, env, name, value, ok, id) ==
    [ op |-> op, repo |-> repo, track |-> track, env |-> env, name |-> name,
      value |-> value, ok |-> ok, id |-> id ]

\* faulty variant: the fetch always answers not-found
EnvNeverFound(es, repo, env) == FALSE

EnvExists(es, repo, env) == \E e \in es : e.repo = repo /\ e.env = env

\* the environment's public key as GetEnvPublicKey returns it
EnvPublicKey(repo, env) == [KeyID |-> "key:" \o repo \o ":" \o env]

\* faulty variant: the value goes out as it is
SealNothing(key, value) == value

\* box.SealAnonymous under the environment's key, base64-encoded
SealAnonymous(key, value) == StdEncode([sealedFor |-> key.KeyID, plain |-> value])

\* encryptSecret's result: github.EncryptedSecret
EncryptedSecret(repo, env, name, value) ==
    [ Name |-> name,
      KeyID |-> EnvPublicKey(repo, env).KeyID,
      EncryptedValue |-> SealAnonymous(EnvPublicKey(repo, env), value) ]

\* faulty variant: the upload adds a secret beside the one of the same name
PutSecretBeside(ss, repo, env, secret) ==
    ss \cup {[repo |-> repo, env |-> env, secret |-> secret]}

\* CreateOrUpdateEnvSecret on the server: one secret per name
PutSecret(ss, repo, env, secret) ==
    {x \in ss : ~(x.repo = repo /\ x.env = env /\ x.secret.Name = secret.Name)}
        \cup {[repo |-> repo, env |-> env, secret |-> secret]}

\* the calls of SetEnvSecret that may fail, in call order; the two of
\* createEnvironment are made only when the environment is missing.
\* "getEnvNoReply" is GetEnvironment failing without any HTTP response;
\* "decodeKey" is a public key that is not base64 and "shortKey" one that
\* decodes to fewer than 32 bytes.
EnvFailPoints(es, repo, env) ==
    {"none", "getRepo", "getEnv", "getEnvNoReply", "getKey", "decodeKey", "shortKey", "upload"}
        \cup (IF EnvExists(es, repo, env) THEN {} ELSE {"createEnv", "createPolicy"})

\* SetEnvSecret with ensureEnvironment, createEnvironment and
\* encryptSecret, for the call that fails at fp ("none": no call fails).
\* ensureEnvironment reads resp.StatusCode before it looks at err: with no
\* response at all that is a nil dereference.  encryptSecret converts the
\* decoded key to a 32-byte array: a shorter key is a run-time panic.
SetEnvSecret(es, ss, repo, track, name, value, fp) ==
    LET env == track.Environment
        \* the request's payload: the branch for the branch-policy call, the
        \* encrypted secret for the upload, nothing for the others
        C(op, ok) == Entry(op, repo, track.Name, env, name,
                           CASE op = "createPolicy" -> Plain(track.Branch)
                             [] op = "upload" ->
                                    [enc |-> "json",
                                     bytes |-> EncryptedSecret(repo, env, name, value)]
                             [] OTHER -> NoToken,
                           ok, 0)
        fail(kind, calls, es2) == [kind |-> kind, calls |-> calls, envs |-> es2, secrets |-> ss]
        missing == ~EnvExists(es, repo, env)
        pre == <<C("getRepo", TRUE), C("getEnv", TRUE)>>
        mk == IF missing THEN <<C("createEnv", TRUE), C("createPolicy", TRUE)>> ELSE <<>>
        es1 == IF missing
               THEN es \cup {[repo |-> repo, env |-> env, branches |-> {track.Branch}]}
               ELSE es
    IN  CASE fp = "getRepo" -> fail("err", <<C("getRepo", FALSE)>>, es)
          [] fp = "getEnvNoReply" ->
                fail("panic", <<C("getRepo", TRUE), C("getEnv", FALSE)>>, es)
          [] fp = "getEnv" ->
                fail("err", <<C("getRepo", TRUE), C("getEnv", FALSE)>>, es)
          [] fp = "createEnv" -> fail("err", pre \o <<C("createEnv", FALSE)>>, es)
          [] fp = "createPolicy" ->
                fail("err", pre \o <<C("createEnv", TRUE), C("createPolicy", FALSE)>>,
                     es \cup {[repo |-> repo, env |-> env, branches |-> {}]})
          [] fp = "getKey" -> fail("err", pre \o mk \o <<C("getKey", FALSE)>>, es1)
          [] fp = "decodeKey" -> fail("err", pre \o mk \o <<C("getKey", TRUE)>>, es1)
          [] fp = "shortKey" -> fail("panic", pre \o mk \o <<C("getKey", TRUE)>>, es1)
          [] fp = "upload" ->
                fail("err", pre \o mk \o <<C("getKey", TRUE), C("upload", FALSE)>>, es1)
          [] OTHER ->
                [ kind |-> "ok",
                  calls |-> pre \o mk \o <<C("getKey", TRUE), C("upload", TRUE)>>,
                  envs |-> es1,
                  secrets |-> PutSecret(ss, repo, env, EncryptedSecret(repo, env, name, value)) ]

\* ---- a sequence of SetEnvSecret calls ----

MaxCalls == 3

RcRepos == {"app"}
RcTracks == {DefaultTrack, Track7}
RcNames == {"LP_BUILD_SECRET", "SNAPCRAFTERS_BOT_COMMIT"}
RcValues == {Plain("v1"), Plain("v2")}

NoCall ==
    [ repo |-> "", track |-> DefaultTrack, name |-> "", value |-> NoToken, fp |-> "none",
      existed |-> FALSE, kind |-> "none", calls |-> <<>>, pre |-> {}, post |-> {} ]

RepoIdle ==
    /\ rcCall = NoCall
    /\ rcCount = 0

\* one SetEnvSecret call from start to return; "existed" records whether
\* the server had the environment when the call began and "fp" which of
\* its steps failed
RepoSetEnvSecret ==
    /\ rcCount < MaxCalls
    /\ rcCall.kind # "panic"
    /\ \E repo \in RcRepos, track \in RcTracks, name \in RcNames, value \in RcValues :
        \E fp \in EnvFailPoints(envs, repo, track.Environment) :
            LET r == SetEnvSecret(envs, secrets, repo, track, name, value, fp)
            IN  /\ envs' = r.envs
                /\ secrets' = r.secrets
                /\ rcCall' = [ repo |-> repo, track |-> track, name |-> name, value |-> value,
                               fp |-> fp,
                               existed |-> \E e \in envs :
                                                e.repo = repo /\ e.env = track.Environment,
                               kind |-> r.kind, calls |-> r.calls,
                               pre |-> secrets, post |-> r.secrets ]
    /\ rcCount' = rcCount + 1
    /\ UNCHANGED <<tokens, stVars, lVars, runVars, ocVars, cmdVars, psVars, appVars>>

NextRepo ==
    \/ RepoSetEnvSecret

----------------------------------------------------------------------------
(* Properties of RepoClient.SetEnvSecret *)

\* the positions of the call's requests of one kind
CallsOf(op) == {k \in 1..Len(rcCall.calls) : rcCall.calls[k].op = op}

\* C11: a call on a missing environment creates it at most once, and
\* exactly once when the call gets as far as the public key; the branch
\* policy names the track's branch and follows the creation; both precede
\* the public-key fetch and the upload.  A call on an existing environment
\* makes neither request.
C11_EnvironmentCreation ==
    LET c == rcCall.calls
    IN  /\ rcCall.existed => (CallsOf("createEnv") = {} /\ CallsOf("createPolicy") = {})
        /\ Cardinality(CallsOf("createEnv")) <= 1
        /\ Cardinality(CallsOf("createPolicy")) <= 1
        /\ \A k \in CallsOf("createEnv") :
                /\ c[k].env = rcCall.track.Environment
                /\ \E j \in CallsOf("getEnv") : j < k
        /\ \A k \in CallsOf("createPolicy") :
                /\ c[k].value = Plain(rcCall.track.Branch)
                /\ c[k].env = rcCall.track.Environment
                /\ \E j \in CallsOf("createEnv") : j < k /\ c[j].ok
        /\ (~rcCall.existed /\ rcCall.kind # "none") =>
                \A k \in CallsOf("getKey") \cup CallsOf("upload") :
                    /\ \E j \in CallsOf("createEnv") : j < k /\ c[j].ok
                    /\ \E j \in CallsOf("createPolicy") : j < k /\ c[j].ok

C11_Witness ==
    /\ rcCall.kind = "ok"
    /\ ~rcCall.existed
    /\ rcCall.track = Track7
    /\ Cardinality(CallsOf("createEnv")) = 1
    /\ Cardinality(CallsOf("createPolicy")) = 1
    /\ CallsOf("upload") # {}
    /\ rcCount = 2

\* C12: a successful call leaves exactly one secret of its name in its
\* environment, the encryption of the value just given, whatever was there
\* before; every other secret is as it was before the call.
C12_OverwriteByName ==
    LET env == rcCall.track.Environment
        same(x) == x.repo = rcCall.repo /\ x.env = env /\ x.secret.Name = rcCall.name
    IN  rcCall.kind = "ok" =>
            /\ secrets = rcCall.post
            /\ {x \in secrets : same(x)} =
                    { [ repo |-> rcCall.repo, env |-> env,
                        secret |-> EncryptedSecret(rcCall.repo, env, rcCall.name, rcCall.value) ] }
            /\ {x \in secrets : ~same(x)} = {x \in rcCall.pre : ~same(x)}

\* the second of two successful uploads of one name with different
\* values, in an environment that also holds a secret of another name
C12_Witness ==
    LET env == rcCall.track.Environment
    IN  /\ rcCall.kind = "ok"
        /\ rcCall.value = Plain("v2")
        /\ \E x \in rcCall.pre :
                /\ x.repo = rcCall.repo /\ x.env = env /\ x.secret.Name = rcCall.name
                /\ x.secret = EncryptedSecret(rcCall.repo, env, rcCall.name, Plain("v1"))
        /\ \E x \in rcCall.pre :
                x.repo = rcCall.repo /\ x.env = env /\ x.secret.Name # rcCall.name

\* C28: every upload request of a call carries the call's secret name,
\* the key id of the public key of the call's environment, fetched by
\* a request of the same call, and the value sealed for that key; no
\* request of the call carries the value itself; a call whose public key
\* was not fetched or could not be used sends no upload and changes no
\* secret.
C28_SealedUploads ==
    LET c == rcCall.calls
        env == rcCall.track.Environment
    IN  /\ \A k \in 1..Len(c) :
                /\ c[k].value # rcCall.value
                /\ c[k].value.bytes # rcCall.value
        /\ \A k \in CallsOf("upload") :
                /\ c[k].value.bytes.EncryptedValue # rcCall.value
                /\ c[k].value.bytes.Name = rcCall.name
                /\ c[k].env = env
                /\ \E j \in CallsOf("getKey") : j < k /\ c[j].ok /\ c[j].env = env
                /\ c[k].value.bytes.KeyID = "key:" \o rcCall.repo \o ":" \o env
                /\ c[k].value.bytes.EncryptedValue.enc = "std"
                /\ c[k].value.bytes.EncryptedValue.bytes.sealedFor = c[k].value.bytes.KeyID
                /\ c[k].value.bytes.EncryptedValue.bytes.plain = rcCall.value
        /\ rcCall.fp \in {"getKey", "decodeKey", "shortKey"} =>
                /\ CallsOf("upload") = {}
                /\ rcCall.kind \in {"err", "panic"}
                /\ secrets = rcCall.pre

\* the second or third call of a client: a successful upload to the
\* environment of track 7.x, sealed for that environment's key
C28_Witness ==
    /\ rcCount >= 2
    /\ rcCall.kind = "ok"
    /\ rcCall.track = Track7
    /\ rcCall.value = Plain("v2")
    /\ \E k \in CallsOf("upload") :
            rcCall.calls[k].value.bytes.KeyID = "key:app:Candidate Branch 7.x"
    /\ \E x \in secrets : x.env = "Candidate Branch 7.x" /\ x.secret.Name = rcCall.name

\* C31 as claimed: a call whose repository fetch fails returns an error
\* after that request alone; a call whose environment fetch fails, with or
\* without a response, returns an error, creates no environment and
\* uploads nothing; the environment is created only when it is missing.
C31_Original ==
    /\ rcCall.fp = "getRepo" =>
            /\ rcCall.kind = "err"
            /\ Len(rcCall.calls) = 1
    /\ rcCall.fp \in {"getEnv", "getEnvNoReply"} =>
            /\ rcCall.kind = "err"
            /\ CallsOf("createEnv") = {} /\ CallsOf("createPolicy") = {}
            /\ CallsOf("upload") = {}
    /\ CallsOf("createEnv") # {} => ~rcCall.existed

\* C35 as claimed: whatever calls were made and failed, an environment
\* that holds a secret has the deployment branch policy of its track's
\* branch.
C35_Original ==
    \A s \in secrets : \A t \in RcTracks : t.Environment = s.env =>
        \E e \in envs : e.repo = s.repo /\ e.env = s.env /\ t.Branch \in e.branches

----------------------------------------------------------------------------
(* OrgClient.ApprovePATRequest: src/internal/store/tokens.go *)

MaxRequests == 3

\* faulty variant: the size of the repository list is not looked at
MatchesAnySize(org, reqRepos, repo) ==
    /\ \E i \in 1..Len(reqRepos) : reqRepos[i] = org \o "/" \o repo
    /\ \E i \in 1..Len(reqRepos) : reqRepos[i] = org \o "/ci-screenshots"

\* findPATRequest's test of one pending request's repository list, in a
\* client constructed for the organisation org
MatchesRequest(org, reqRepos, repo) ==
    /\ Len(reqRepos) = 2
    /\ \E i \in 1..Len(reqRepos) : reqRepos[i] = org \o "/" \o repo
    /\ \E i \in 1..Len(reqRepos) : reqRepos[i] = org \o "/ci-screenshots"

\* repository lists a pending request may have
RequestRepoLists ==
    { <<"snapcrafters/app", "snapcrafters/ci-screenshots">>,
      <<"snapcrafters/ci-screenshots", "snapcrafters/app">>,
      <<"snapcrafters/my-app", "snapcrafters/ci-screenshots">>,
      <<"snapcrafters/app">>,
      <<"snapcrafters/app", "snapcrafters/website">>,
      <<"snapcrafters/app", "snapcrafters/ci-screenshots", "snapcrafters/website">> }

\* the org's pending requests: up to n of them, the id is the position
PendingListings(n) ==
    UNION { { [i \in 1..k |-> [ID |-> i, Repos |-> f[i]]] : f \in [1..k -> RequestRepoLists] } :
                k \in 0..n }

OrgRepos == {"app", "my-app"}

OrgIdle ==
    /\ ocPc = "idle"
    /\ ocRepo = ""
    /\ ocPending = <<>>
    /\ ocReqs = <<>>
    /\ ocIdx = 0
    /\ ocFetched = <<>>
    /\ ocReviews = <<>>
    /\ ocResult = "none"

\* ApprovePATRequest(repo) is called
OrgApprove ==
    /\ ocPc = "idle"
    /\ ocRepo' \in OrgRepos
    /\ ocPc' = "client"
    /\ UNCHANGED <<ocPending, ocReqs, ocIdx, ocFetched, ocReviews, ocResult>>
    /\ UNCHANGED <<stVars, lVars, runVars, srvVars, rcVars, cmdVars, psVars, appVars>>

\* oc.client(): GetAppToken gives a token or fails
OrgClientToken ==
    /\ ocPc = "client"
    /\ \E ok \in BOOLEAN :
        IF ok THEN ocPc' = "list" /\ ocResult' = ocResult
        ELSE ocPc' = "done" /\ ocResult' = "err"
    /\ UNCHANGED <<ocRepo, ocPending, ocReqs, ocIdx, ocFetched, ocReviews>>
    /\ UNCHANGED <<stVars, lVars, runVars, srvVars, rcVars, cmdVars, psVars, appVars>>

\* findPATRequest: listPATRequests answers with the pending requests or fails
OrgListRequests ==
    /\ ocPc = "list"
    /\ \E ok \in BOOLEAN :
        IF ok THEN /\ ocReqs' = ocPending /\ ocIdx' = 1 /\ ocPc' = "scan"
                   /\ ocResult' = ocResult
        ELSE /\ ocPc' = "done" /\ ocResult' = "err"
             /\ UNCHANGED <<ocReqs, ocIdx>>
    /\ UNCHANGED <<ocRepo, ocPending, ocFetched, ocReviews>>
    /\ UNCHANGED <<stVars, lVars, runVars, srvVars, rcVars, cmdVars, psVars, appVars>>

\* findPATRequest: one iteration of the loop over the requests, or the
\* return after the loop when nothing matched
OrgScan ==
    /\ ocPc = "scan"
    /\ IF ocIdx > Len(ocReqs)
       THEN /\ ocPc' = "done" /\ ocResult' = "err"
            /\ UNCHANGED <<ocIdx, ocFetched>>
       ELSE \E ok \in BOOLEAN :
            /\ ocFetched' = Append(ocFetched, ocReqs[ocIdx].ID)
            /\ IF ~ok
               THEN ocPc' = "done" /\ ocResult' = "err" /\ ocIdx' = ocIdx
               ELSE IF MatchesRequest(Org, ocReqs[ocIdx].Repos, ocRepo)
               THEN ocPc' = "review" /\ ocResult' = ocResult /\ ocIdx' = ocIdx
               ELSE ocPc' = "scan" /\ ocResult' = ocResult /\ ocIdx' = ocIdx + 1
    /\ UNCHANGED <<ocRepo, ocPending, ocReqs, ocReviews>>
    /\ UNCHANGED <<stVars, lVars, runVars, srvVars, rcVars, cmdVars, psVars, appVars>>

\* ReviewPersonalAccessTokenRequest(requestId, "approve"): the request is
\* sent; the server approves it (it is no longer pending) or the call fails
OrgReview ==
    /\ ocPc = "review"
    /\ ocReviews' = Append(ocReviews, ocReqs[ocIdx].ID)
    /\ \E ok \in BOOLEAN :
        IF ok
        THEN /\ ocPending' = SelectSeq(ocPending, LAMBDA r : r.ID # ocReqs[ocIdx].ID)
             /\ ocResult' = "ok"
        ELSE /\ ocPending' = ocPending
             /\ ocResult' = "err"
    /\ ocPc' = "done"
    /\ UNCHANGED <<ocRepo, ocReqs, ocIdx, ocFetched>>
    /\ UNCHANGED <<stVars, lVars, runVars, srvVars, rcVars, cmdVars, psVars, appVars>>

NextOrg ==
    \/ OrgApprove
    \/ OrgClientToken
    \/ OrgListRequests
    \/ OrgScan
    \/ OrgReview

----------------------------------------------------------------------------
(* Properties of OrgClient.ApprovePATRequest *)

\* the listed requests that satisfy the two-repository rule for the call
Matching ==
    {i \in 1..Len(ocReqs) :
        /\ Len(ocReqs[i].Repos) = 2
        /\ {ocReqs[i].Repos[1], ocReqs[i].Repos[2]}
                = {Org \o "/" \o ocRepo, Org \o "/ci-screenshots"}}

\* C13: at most one review is sent, for a listed request with exactly the
\* two repositories <org>/<repo> and <org>/ci-screenshots; every request
\* listed before it was looked at and is not such a request; a call that
\* finds no such request ends with an error and no review.
C13_ApproveOnlyMatching ==
    /\ Len(ocReviews) <= 1
    /\ \A k \in 1..Len(ocReviews) :
        \E i \in Matching :
            /\ ocReqs[i].ID = ocReviews[k]
            /\ \A j \in 1..(i - 1) : j \notin Matching
            /\ ocFetched = [j \in 1..i |-> ocReqs[j].ID]
    /\ (ocPc = "done" /\ Matching = {}) => (ocResult = "err" /\ ocReviews = <<>>)
    /\ ocResult = "ok" => Len(ocReviews) = 1

C13_Witness ==
    /\ ocPc = "done"
    /\ ocResult = "ok"
    /\ ocRepo = "app"
    /\ Len(ocReqs) = 3
    /\ ocReviews = <<3>>
    /\ Len(ocReqs[1].Repos) = 3
    /\ ocReqs[2].Repos = <<"snapcrafters/my-app", "snapcrafters/ci-screenshots">>

\* C14 as claimed: with more than one matching pending request the call
\* ends with an error and sends no review.
C14_Original ==
    (ocPc = "done" /\ Cardinality(Matching) > 1)
        => (ocResult = "err" /\ ocReviews = <<>>)

----------------------------------------------------------------------------
(* OrgClient.client and GetAppToken: src/internal/store/tokens.go,         *)
(* src/internal/gh/app_token.go                                            *)

MaxApprovals == 5

\* a response as the client sees it: no response at all, or a body.  A
\* body is a JSON array of installations or a JSON object; hasUrl and
\* hasToken say whether the field is in the document (gjson's Exists()).
AppReply(err, kind, items, hasToken, token) ==
    [err |-> err, kind |-> kind, items |-> items, hasToken |-> hasToken, token |-> token]
Installation(hasUrl, n) ==
    [ hasUrl |-> hasUrl,
      url |-> IF hasUrl
              THEN "https://api.github.com/app/installations/" \o ToString(n) \o "/access_tokens"
              ELSE "" ]

\* what GET /app/installations may answer
InstallationReplies ==
    { AppReply(TRUE, "none", <<>>, FALSE, ""),
      AppReply(FALSE, "array", <<Installation(TRUE, 7), Installation(TRUE, 9)>>, FALSE, ""),
      AppReply(FALSE, "array", <<Installation(FALSE, 7), Installation(TRUE, 9)>>, FALSE, ""),
      AppReply(FALSE, "array", <<>>, FALSE, ""),
      AppReply(FALSE, "object", <<>>, FALSE, "") }

\* what POST <access tokens url> may answer; the n-th token minted is ghs_n
TokenReplies(n) ==
    { AppReply(TRUE, "none", <<>>, FALSE, ""),
      AppReply(FALSE, "object", <<>>, TRUE, "ghs_" \o ToString(n)),
      AppReply(FALSE, "object", <<>>, FALSE, "") }

\* encodeJWT: the assertion carries the time it was signed at, so every
\* call signs a new one
encodeJWT(n) == "jwt-" \o ToString(n)

AppRequest(method, url, jwt) == [method |-> method, url |-> url, auth |-> "Bearer " \o jwt]

\* faulty variant: the URL of the last installation is taken
getAppTokenEndpointLast(reply) ==
    IF reply.err THEN [err |-> TRUE, url |-> ""]
    ELSE IF reply.kind = "array" /\ Len(reply.items) > 0 /\ reply.items[Len(reply.items)].hasUrl
    THEN [err |-> FALSE, url |-> reply.items[Len(reply.items)].url]
    ELSE [err |-> TRUE, url |-> ""]

\* getAppTokenEndpoint on the response: gjson path "0.access_tokens_url"
getAppTokenEndpoint(reply) ==
    IF reply.err THEN [err |-> TRUE, url |-> ""]
    ELSE IF reply.kind = "array" /\ Len(reply.items) > 0 /\ reply.items[1].hasUrl
    THEN [err |-> FALSE, url |-> reply.items[1].url]
    ELSE [err |-> TRUE, url |-> ""]

\* fetchAppToken on the response: gjson path "token"
fetchAppToken(reply) ==
    IF reply.err THEN [err |-> TRUE, token |-> ""]
    ELSE IF reply.kind = "object" /\ reply.hasToken
    THEN [err |-> FALSE, token |-> reply.token]
    ELSE [err |-> TRUE, token |-> ""]

NoClient == [kind |-> "none", token |-> "", reused |-> FALSE]

AppIdle ==
    /\ atPc = "idle"
    /\ atCalls = 0
    /\ atJwt = ""
    /\ atUrl = ""
    /\ atReqs = <<>>
    /\ atReplies = <<>>
    /\ atResult = NoClient
    /\ atMinted = <<>>
    /\ ocGithubClient = "nil"
    /\ ocToken = ""

\* oc.client() returns an error: ApprovePATRequest returns it
AppFails ==
    /\ atPc' = "done"
    /\ atResult' = [kind |-> "err", token |-> "", reused |-> FALSE]
    /\ UNCHANGED <<ocGithubClient, ocToken>>

\* ApprovePATRequest is called: oc.client() returns the stored client if
\* there is one, and otherwise goes on to GetAppToken
AppClient ==
    /\ atPc \in {"idle", "done"}
    /\ atCalls < MaxApprovals
    /\ atCalls' = atCalls + 1
    /\ atReqs' = <<>>
    /\ atReplies' = <<>>
    /\ atJwt' = ""
    /\ atUrl' = ""
    /\ IF ocGithubClient # "nil"
       THEN /\ atPc' = "done"
            /\ atResult' = [kind |-> "ok", token |-> ocGithubClient, reused |-> TRUE]
       ELSE /\ atPc' = "jwt"
            /\ atResult' = NoClient
    /\ UNCHANGED <<atMinted, ocGithubClient, ocToken>>
    /\ UNCHANGED <<stVars, lVars, runVars, srvVars, rcVars, ocVars, cmdVars, psVars>>

\* GetAppToken: encodeJWT signs the assertion, or the key does not parse
AppEncodeJWT ==
    /\ atPc = "jwt"
    /\ \E ok \in BOOLEAN :
        IF ok
        THEN /\ atJwt' = encodeJWT(atCalls)
             /\ atPc' = "installations"
             /\ UNCHANGED <<atResult, ocGithubClient, ocToken>>
        ELSE /\ AppFails
             /\ atJwt' = atJwt
    /\ UNCHANGED <<atCalls, atUrl, atReqs, atReplies, atMinted>>
    /\ UNCHANGED <<stVars, lVars, runVars, srvVars, rcVars, ocVars, cmdVars, psVars>>

\* GetAppToken: getAppTokenEndpoint
AppInstallations ==
    /\ atPc = "installations"
    /\ \E reply \in InstallationReplies :
        /\ atReqs' = Append(atReqs, AppRequest("GET", "https://api.github.com/app/installations", atJwt))
        /\ atReplies' = Append(atReplies, reply)
        /\ IF getAppTokenEndpoint(reply).err
           THEN /\ AppFails
                /\ atUrl' = atUrl
           ELSE /\ atUrl' = getAppTokenEndpoint(reply).url
                /\ atPc' = "token"
                /\ UNCHANGED <<atResult, ocGithubClient, ocToken>>
    /\ UNCHANGED <<atCalls, atJwt, atMinted>>
    /\ UNCHANGED <<stVars, lVars, runVars, srvVars, rcVars, ocVars, cmdVars, psVars>>

\* GetAppToken: fetchAppToken, and the end of oc.client(): the token is
\* kept in oc.token and a new client is returned; oc.githubClient is not
\* assigned.  The server has minted a token when its answer carries one.
AppFetchToken ==
    /\ atPc = "token"
    /\ \E reply \in TokenReplies(Len(atMinted) + 1) :
        /\ atReqs' = Append(atReqs, AppRequest("POST", atUrl, atJwt))
        /\ atReplies' = Append(atReplies, reply)
        /\ atMinted' = IF ~reply.err /\ reply.hasToken THEN Append(atMinted, reply.token)
                       ELSE atMinted
        /\ IF fetchAppToken(reply).err
           THEN AppFails
           ELSE /\ ocToken' = fetchAppToken(reply).token
                /\ ocGithubClient' = ocGithubClient
                /\ atPc' = "done"
                /\ atResult' = [kind |-> "ok", token |-> fetchAppToken(reply).token,
                                reused |-> FALSE]
    /\ UNCHANGED <<atCalls, atJwt, atUrl>>
    /\ UNCHANGED <<stVars, lVars, runVars, srvVars, rcVars, ocVars, cmdVars, psVars>>

NextApp ==
    \/ AppClient
    \/ AppEncodeJWT
    \/ AppInstallations
    \/ AppFetchToken

----------------------------------------------------------------------------
(* Properties of OrgClient.client and GetAppToken *)

\* C26: a GetAppToken call sends at most the installations GET and then
\* the token POST, both with the assertion signed for the call; the POST
\* goes to the token URL of the first installation of the GET's answer; an
\* answer without installation ends the call with an error and no POST; a
\* POST answer without token ends it with an error and no token.
C26_AppTokenRequests ==
    /\ Len(atReqs) <= 2 /\ Len(atReplies) = Len(atReqs)
    /\ Len(atReqs) >= 1 =>
        /\ atReqs[1] = [ method |-> "GET", url |-> "https://api.github.com/app/installations",
                         auth |-> "Bearer " \o atJwt ]
        /\ atJwt # ""
        /\ (atReplies[1].err \/ atReplies[1].kind # "array" \/ atReplies[1].items = <<>>) =>
                /\ Len(atReqs) = 1
                /\ atPc = "done" /\ atResult.kind = "err" /\ atResult.token = ""
    /\ Len(atReqs) = 2 =>
        /\ atReplies[1].kind = "array" /\ Len(atReplies[1].items) >= 1
        /\ atReplies[1].items[1].hasUrl
        /\ atReqs[2].method = "POST"
        /\ atReqs[2].url = atReplies[1].items[1].url
        /\ atReqs[2].auth = atReqs[1].auth
        /\ atPc = "done"
        /\ IF ~atReplies[2].err /\ atReplies[2].hasToken
           THEN atResult.kind = "ok" /\ atResult.token = atReplies[2].token
           ELSE atResult.kind = "err" /\ atResult.token = ""
    /\ (atResult.kind = "ok" /\ ~atResult.reused) => Len(atReqs) = 2

\* a call that got the token of the first of two installations
C26_Witness ==
    /\ atPc = "done"
    /\ atResult = [kind |-> "ok", token |-> "ghs_1", reused |-> FALSE]
    /\ Len(atReqs) = 2
    /\ Len(atReplies[1].items) = 2
    /\ atReqs[2].url = "https://api.github.com/app/installations/7/access_tokens"
    /\ atReqs[2].auth = "Bearer jwt-1"

\* C30 as claimed: over the calls made on one OrgClient at most one
\* installation token is minted, and a client that was returned by a call
\* that got its token is what every later call returns.
C30_Original ==
    /\ Len(atMinted) <= 1
    /\ (atPc = "done" /\ atResult.kind = "ok" /\ atMinted # <<>>)
            => atResult.token = atMinted[1]

----------------------------------------------------------------------------
(* Manager: src/internal/tokenator/manager.go *)

\* faulty variant: the result follows the order of the filter
filterReposFilterOrder(cfgRepos, filter) ==
    LET RECURSIVE from(_)
        from(i) == IF i > Len(filter) THEN <<>>
                   ELSE SelectSeq(cfgRepos, LAMBDA r : r.Name = filter[i]) \o from(i + 1)
    IN  IF Len(filter) > 0 THEN from(1) ELSE cfgRepos

\* filterRepos
filterRepos(cfgRepos, filter) ==
    IF Len(filter) > 0
    THEN SelectSeq(cfgRepos, LAMBDA r : \E i \in 1..Len(filter) : filter[i] = r.Name)
    ELSE cfgRepos

\* faulty variant: every repository is given the default track
LoopReposAlwaysDefault(cfgRepos, filter) ==
    LET fr == filterRepos(cfgRepos, filter)
    IN  [i \in 1..Len(fr) |-> SetDefaults(fr[i])]

\* the repositories Process loops over: a repository without tracks gets
\* the default track, in the loop's own copy
LoopRepos(cfgRepos, filter) ==
    LET fr == filterRepos(cfgRepos, filter)
    IN  [i \in 1..Len(fr) |-> IF Len(fr[i].Tracks) = 0 THEN SetDefaults(fr[i]) ELSE fr[i]]

\* faulty variant: the track is put before the repository
TokenNameTrackFirst(id, snap, track) == "token8r-" \o id \o "-" \o track \o "-" \o snap

\* the name setBotCommitSecret gives the token it creates
TokenName(id, snap, track) == "token8r-" \o id \o "-" \o snap \o "-" \o track

\* setBotCommitSecret's test for a token of a prior run
Superseded(name, snap, track, id) ==
    Contains(name, snap \o "-" \o track) /\ ~Contains(name, id)

FullName(snap) == config.Org \o "/" \o snap

\* the repositories the created token is scoped to
TokenRepos(snap) == <<FullName(snap), "snapcrafters/ci-screenshots">>

\* the secret value shown once for a new token
TokenValue(id) == "github_pat_" \o ToString(id)

\* a token on the account.  repo, track and rid say which pair and which
\* run identifier it was created for; they are bookkeeping of the model.
ManualToken ==
    [ Name |-> "laptop", Repos |-> <<"snapcrafters/website">>, state |-> "active",
      repo |-> "", track |-> "", rid |-> "", run |-> 0 ]

\* the order of a track's steps in Process and setBotCommitSecret
StepAfterSwapped(step) ==
    CASE step = "candidate" -> "launchpad"
      [] step = "launchpad" -> "stable"
      [] step = "stable" -> "create"
      [] step = "create" -> "approve"
      [] step = "approve" -> "bot"
      [] step = "bot" -> "cleanup"
      [] OTHER -> "candidate"

StepAfter(step) ==
    CASE step = "candidate" -> "stable"
      [] step = "stable" -> "launchpad"
      [] step = "launchpad" -> "create"
      [] step = "create" -> "approve"
      [] step = "approve" -> "bot"
      [] step = "bot" -> "cleanup"
      [] OTHER -> "candidate"

\* the replies the store is given in a run of the Manager
RunRootReplies ==
    { TransportError,
      Reply(200, RawURLEncode(MarshalBinary([caveats |-> <<AuthCaveat>>, sig |-> "root"])), Absent),
      Reply(200, RawURLEncode(MarshalBinary([caveats |-> <<>>, sig |-> "root"])), Absent) }
RunDischargeReplies ==
    { Reply(200, Absent, RawURLEncode(MarshalBinary(DischargeMac))),
      Reply(401, Absent, Absent) }

CurRepo == repos[ri]
CurTrack == repos[ri].Tracks[ti]

ProcIdle ==
    /\ pc = "idle"
    /\ run = 0
    /\ mid = ""
    /\ pFilter = <<>>
    /\ repos = <<>>
    /\ ri = 0
    /\ ti = 0
    /\ pats = <<>>
    /\ ci = 0
    /\ pat = 0
    /\ result = "none"
    /\ failed = FALSE
    /\ log = <<>>
    /\ returned = <<>>
    /\ tokens = <<ManualToken>>
    /\ envs = {}
    /\ secrets = {}

\* a step of the run failed: Process returns the error (or the goroutine
\* panicked) and nothing else is done
Fails(kind) ==
    /\ pc' = "done"
    /\ result' = kind
    /\ failed' = TRUE

\* NewManager and the call of Process(filter)
Start ==
    /\ pc \in {"idle", "done"}
    /\ run < MaxRuns
    /\ run' = run + 1
    /\ pc' = "list"
    /\ mid' \in RunIds
    /\ pFilter' \in Filters
    /\ repos' = <<>>
    /\ ri' = 0 /\ ti' = 0 /\ ci' = 0 /\ pat' = 0
    /\ pats' = <<>>
    /\ result' = "none"
    /\ failed' = FALSE
    /\ log' = <<>>
    /\ returned' = IF run = 0 THEN returned ELSE Append(returned, result)
    /\ UNCHANGED <<config, srvVars, stVars, lVars, compVars>>

\* the tokens of the account whose name contains the filter, as List
\* returns them (the account's tokens fit on one page here)
Listing(flt) ==
    LET ids == {i \in 1..Len(tokens) : tokens[i].state # "deleted" /\ Contains(tokens[i].Name, flt)}
        RECURSIVE from(_)
        from(i) == IF i > Len(tokens) THEN <<>>
                   ELSE IF i \in ids THEN <<ListedPAT(i, tokens[i].Name)>> \o from(i + 1)
                   ELSE from(i + 1)
    IN  from(1)

\* Process: patClient.List("token8r"), then the loop's first repository
ListPATs ==
    /\ pc = "list"
    /\ \E ok \in BOOLEAN :
        /\ log' = Append(log, Entry("list", "", "", "", "token8r", NoToken, ok, 0))
        /\ IF ~ok
           THEN /\ Fails("err")
                /\ UNCHANGED <<repos, pats, ri, ti>>
           ELSE LET rs == LoopRepos(config.Repos, pFilter)
                IN  /\ pats' = Listing("token8r")
                    /\ repos' = rs
                    /\ IF Len(rs) = 0
                       THEN /\ pc' = "done" /\ result' = "ok"
                            /\ UNCHANGED <<ri, ti>>
                       ELSE /\ pc' = "candidate" /\ result' = result
                            /\ ri' = 1 /\ ti' = 1
                    /\ failed' = failed
    /\ UNCHANGED <<run, returned, config, mid, pFilter, ci, pat, srvVars, stVars, lVars, compVars>>

\* the log entries of the store requests of one GenerateStoreToken call;
\* only the last request can be the one that failed the call
StoreEntries(g, repo, track, channel) ==
    [i \in 1..Len(g.reqs) |->
        Entry(g.reqs[i].kind, repo, track, "", channel, NoToken,
              g.kind = "ok" \/ i < Len(g.reqs), 0)]

\* the track is finished: the next track, the next repository, or the end
Advance ==
    IF ti < Len(CurRepo.Tracks)
    THEN /\ ti' = ti + 1 /\ ri' = ri /\ pc' = "candidate" /\ result' = result
    ELSE IF ri < Len(repos)
    THEN /\ ri' = ri + 1 /\ ti' = 1 /\ pc' = "candidate" /\ result' = result
    ELSE /\ pc' = "done" /\ result' = "ok" /\ UNCHANGED <<ri, ti>>

\* setEnvSecret's outcome applied to the run and the server
ApplySecret(prefix, e) ==
    /\ log' = log \o prefix \o e.calls
    /\ envs' = e.envs
    /\ secrets' = e.secrets
    /\ IF e.kind = "ok"
       THEN /\ pc' = StepAfter(pc) /\ result' = result /\ failed' = failed
       ELSE Fails(e.kind)

\* setStoreSecret for the candidate or the stable channel
StoreSecret ==
    /\ pc \in {"candidate", "stable"}
    /\ \E rr \in RunRootReplies, dr \in RunDischargeReplies,
          fp \in EnvFailPoints(envs, CurRepo.Name, CurTrack.Environment) :
        LET g == GenerateStoreToken(CurRepo.Name, CurTrack.Name, pc, rr, dr)
            sent == StoreEntries(g, CurRepo.Name, CurTrack.Name, pc)
        IN  IF g.kind # "ok"
            THEN /\ log' = log \o sent
                 /\ Fails(g.kind)
                 /\ UNCHANGED <<envs, secrets>>
            ELSE ApplySecret(sent, SetEnvSecret(envs, secrets, CurRepo.Name, CurTrack,
                                "SNAP_STORE_" \o ToUpper(pc), g.token, fp))
    /\ UNCHANGED <<run, returned, config, mid, pFilter, repos, ri, ti, pats, ci, pat, tokens, stVars, lVars, compVars>>

\* setLaunchpadSecret
LaunchpadSecret ==
    /\ pc = "launchpad"
    /\ \E fp \in EnvFailPoints(envs, CurRepo.Name, CurTrack.Environment) :
        ApplySecret(<<>>, SetEnvSecret(envs, secrets, CurRepo.Name, CurTrack,
                            "LP_BUILD_SECRET", Plain(LaunchpadAuth), fp))
    /\ UNCHANGED <<run, returned, config, mid, pFilter, repos, ri, ti, pats, ci, pat, tokens, stVars, lVars, compVars>>

\* the token patClient.Create leaves on the account
NewToken(snap, track) ==
    [ Name |-> TokenName(mid, snap, track), Repos |-> TokenRepos(snap), state |-> "pending",
      repo |-> snap, track |-> track, rid |-> mid, run |-> run ]

\* faulty variant: the created token is added to the run's listing
CreatePATRelisted ==
    /\ pc = "create"
    /\ \E out \in {"ok", "err", "lost"} :
        LET name == TokenName(mid, CurRepo.Name, CurTrack.Name)
            id == Len(tokens) + 1
        IN  /\ log' = Append(log, Entry("create", CurRepo.Name, CurTrack.Name, "", name, NoToken,
                                        out = "ok", IF out = "err" THEN 0 ELSE id))
            /\ tokens' = IF out = "err" THEN tokens
                         ELSE Append(tokens, NewToken(CurRepo.Name, CurTrack.Name))
            /\ pats' = IF out = "err" THEN pats ELSE Append(pats, ListedPAT(id, name))
            /\ IF out = "ok"
               THEN /\ pat' = id /\ pc' = StepAfter(pc) /\ result' = result /\ failed' = failed
               ELSE /\ Fails("err") /\ pat' = pat
    /\ UNCHANGED <<run, returned, config, mid, pFilter, repos, ri, ti, ci, envs, secrets, stVars, lVars, compVars>>

\* setBotCommitSecret: patClient.Create.  "lost": the form was accepted
\* but its answer did not reach Create, which returns an error.
CreatePAT ==
    /\ pc = "create"
    /\ \E out \in {"ok", "err", "lost"} :
        LET name == TokenName(mid, CurRepo.Name, CurTrack.Name)
            id == Len(tokens) + 1
        IN  /\ log' = Append(log, Entry("create", CurRepo.Name, CurTrack.Name, "", name, NoToken,
                                        out = "ok", IF out = "err" THEN 0 ELSE id))
            /\ tokens' = IF out = "err" THEN tokens
                         ELSE Append(tokens, NewToken(CurRepo.Name, CurTrack.Name))
            /\ IF out = "ok"
               THEN /\ pat' = id /\ pc' = StepAfter(pc) /\ result' = result /\ failed' = failed
               ELSE /\ Fails("err") /\ pat' = pat
    /\ UNCHANGED <<run, returned, config, mid, pFilter, repos, ri, ti, pats, ci, envs, secrets, stVars, lVars, compVars>>

\* setBotCommitSecret: orgClient.ApprovePATRequest.  findPATRequest takes
\* the first pending request, in the order the API lists them, that has the
\* two repositories; that order is the server's.  0: a call failed.
ApprovePAT ==
    /\ pc = "approve"
    /\ \E i \in {0} \cup {k \in 1..Len(tokens) :
                    tokens[k].state = "pending" /\ MatchesRequest(config.Org, tokens[k].Repos, CurRepo.Name)} :
        /\ log' = Append(log, Entry("approve", CurRepo.Name, CurTrack.Name, "", "", NoToken, i # 0, i))
        /\ IF i = 0
           THEN /\ Fails("err") /\ tokens' = tokens
           ELSE /\ tokens' = [tokens EXCEPT ![i].state = "active"]
                /\ pc' = StepAfter(pc) /\ result' = result /\ failed' = failed
    /\ UNCHANGED <<run, returned, config, mid, pFilter, repos, ri, ti, pats, ci, pat, envs, secrets, stVars, lVars, compVars>>

\* setBotCommitSecret: the SNAPCRAFTERS_BOT_COMMIT secret
BotSecret ==
    /\ pc = "bot"
    /\ \E fp \in EnvFailPoints(envs, CurRepo.Name, CurTrack.Environment) :
        ApplySecret(<<>>, SetEnvSecret(envs, secrets, CurRepo.Name, CurTrack,
                            "SNAPCRAFTERS_BOT_COMMIT", Plain(TokenValue(pat)), fp))
    /\ ci' = 1
    /\ UNCHANGED <<run, returned, config, mid, pFilter, repos, ri, ti, pats, pat, tokens, stVars, lVars, compVars>>

\* setBotCommitSecret: one turn of the loop over the listed tokens, and
\* after the last one the loops of Process
Cleanup ==
    /\ pc = "cleanup"
    /\ IF ci > Len(pats)
       THEN /\ Advance
            /\ ci' = 1
            /\ UNCHANGED <<log, tokens, failed>>
       ELSE IF ~Superseded(pats[ci].Name, CurRepo.Name, CurTrack.Name, mid)
       THEN /\ ci' = ci + 1
            /\ UNCHANGED <<pc, result, failed, ri, ti, log, tokens>>
       ELSE \E ok \in BOOLEAN :
            /\ log' = Append(log, Entry("delete", CurRepo.Name, CurTrack.Name, "",
                                        pats[ci].Name, NoToken, ok, pats[ci].ID))
            /\ IF ok
               THEN /\ tokens' = [tokens EXCEPT ![pats[ci].ID].state = "deleted"]
                    /\ ci' = ci + 1
                    /\ UNCHANGED <<pc, result, failed, ri, ti>>
               ELSE /\ Fails("err")
                    /\ UNCHANGED <<tokens, ci, ri, ti>>
    /\ UNCHANGED <<run, returned, config, mid, pFilter, repos, pats, pat, envs, secrets, stVars, lVars, compVars>>

Next ==
    \/ Start
    \/ ListPATs
    \/ StoreSecret
    \/ LaunchpadSecret
    \/ CreatePAT
    \/ ApprovePAT
    \/ BotSecret
    \/ Cleanup


----------------------------------------------------------------------------
(* Properties of Manager.Process *)

\* the (repository, track) pairs the run loops over
Pairs ==
    UNION { {<<repos[i].Name, repos[i].Tracks[k]>> : k \in 1..Len(repos[i].Tracks)} :
                i \in 1..Len(repos) }

\* the run's attempts to upload a secret for one track, in order
Uploads(r, t) ==
    SelectSeq(log, LAMBDA e : e.op = "upload" /\ e.repo = r /\ e.track = t)

SecretOrder ==
    <<"SNAP_STORE_CANDIDATE", "SNAP_STORE_STABLE", "LP_BUILD_SECRET", "SNAPCRAFTERS_BOT_COMMIT">>

\* the tokens of the pair (r, t) that are still on the account
Live(r, t) ==
    {i \in 1..Len(tokens) :
        tokens[i].repo = r /\ tokens[i].track = t /\ tokens[i].state # "deleted"}

\* C1 as claimed: a cleanup deletion only ever hits a token of the pair
\* being cleaned that does not carry the run identifier, and a run that
\* succeeds has deleted every listed token matching "<repo>-<track>"
\* without the run identifier, for each pair it processed.
C1_Original ==
    /\ \A i \in 1..Len(log) : (log[i].op = "delete" /\ log[i].ok) =>
        /\ tokens[log[i].id].repo = log[i].repo
        /\ tokens[log[i].id].track = log[i].track
        /\ ~Contains(log[i].name, mid)
    /\ (pc = "done" /\ result = "ok") =>
        \A p \in Pairs : \A k \in 1..Len(pats) :
            (Contains(pats[k].Name, p[1] \o "-" \o p[2].Name) /\ ~Contains(pats[k].Name, mid))
                => tokens[pats[k].ID].state = "deleted"

\* C2 as claimed: after a successful run every processed pair has at most
\* one live token, created by this run (histories in which an earlier run
\* drew the same identifier are left aside here).
C2_Original ==
    ( /\ pc = "done"
      /\ result = "ok"
      /\ \A i \in 1..Len(tokens) : tokens[i].run < run => tokens[i].rid # mid )
    => \A p \in Pairs :
        /\ Cardinality(Live(p[1], p[2].Name)) <= 1
        /\ \A i \in Live(p[1], p[2].Name) : tokens[i].run = run

\* C4: the run's uploads for a track are, in order, SNAP_STORE_CANDIDATE,
\* SNAP_STORE_STABLE, LP_BUILD_SECRET, SNAPCRAFTERS_BOT_COMMIT; each goes to
\* the track's environment, none is attempted unless the ones before it
\* succeeded, and LP_BUILD_SECRET is the configured value.
C4_UploadOrder ==
    /\ \A i \in 1..Len(log) : log[i].op = "upload" =>
        \E p \in Pairs : p[1] = log[i].repo /\ p[2].Name = log[i].track
    /\ \A p \in Pairs :
        LET u == Uploads(p[1], p[2].Name)
        IN  /\ Len(u) <= Len(SecretOrder)
            /\ \A k \in 1..Len(u) :
                /\ u[k].name = SecretOrder[k]
                /\ u[k].env = p[2].Environment
                /\ k < Len(u) => u[k].ok
                /\ u[k].name = "LP_BUILD_SECRET" =>
                        u[k].value.bytes.EncryptedValue.bytes.plain = Plain(LaunchpadAuth)
                /\ u[k].ok => \E x \in secrets :
                        /\ x.repo = p[1] /\ x.env = p[2].Environment
                        /\ x.secret.Name = u[k].name

C4_Witness ==
    /\ pc = "done"
    /\ result = "ok"
    /\ Len(Uploads("cafe", "latest")) = 4
    /\ Len(Uploads("cafe", "7.x")) = 4
    /\ Uploads("cafe", "7.x")[3].ok
    /\ Uploads("cafe", "7.x")[3].env = "Candidate Branch 7.x"

\* C5 as claimed: a failed step makes Process return an error.
C5_Original ==
    failed => (pc = "done" /\ result = "err")

IsHex(str) ==
    \A i \in 1..Len(str) :
        \E k \in 1..Len("0123456789abcdef") : SubSeq("0123456789abcdef", k, k) = SubSeq(str, i, i)

\* C20: every token a run creates is named "token8r-", the run identifier,
\* "-", the repository, "-", the track; the identifier has four
\* hexadecimal characters and is the Manager's one identifier for all the
\* tokens of the run.
C20_TokenNames ==
    /\ pc # "idle" => (Len(mid) = 4 /\ IsHex(mid))
    /\ \A i \in 1..Len(log) : log[i].op = "create" =>
            /\ log[i].name = "token8r-" \o mid \o "-" \o log[i].repo \o "-" \o log[i].track
            /\ \E p \in Pairs : p[1] = log[i].repo /\ p[2].Name = log[i].track
    /\ \A k \in 1..Len(tokens) : tokens[k].run >= 1 =>
            /\ tokens[k].Name = "token8r-" \o tokens[k].rid \o "-" \o tokens[k].repo
                                    \o "-" \o tokens[k].track
            /\ Len(tokens[k].rid) = 4 /\ IsHex(tokens[k].rid)
            /\ tokens[k].run = run => tokens[k].rid = mid
            /\ \A j \in 1..Len(tokens) :
                    tokens[j].run = tokens[k].run => tokens[j].rid = tokens[k].rid

C20_Witness ==
    /\ pc = "done" /\ result = "ok"
    /\ mid = "cafe"
    /\ \E j, k \in 1..Len(tokens) :
        /\ tokens[j].run = run /\ tokens[k].run = run
        /\ tokens[j].Name = "token8r-cafe-cafe-latest"
        /\ tokens[k].Name = "token8r-cafe-cafe-7.x"

\* the positions in the configuration of the repositories Process is to
\* handle under the run's filter
Selected ==
    {i \in 1..Len(config.Repos) :
        pFilter = <<>> \/ \E k \in 1..Len(pFilter) : pFilter[k] = config.Repos[i].Name}

\* the position of a repository name in the configuration
CfgIndex(name) == CHOOSE i \in 1..Len(config.Repos) : config.Repos[i].Name = name

\* the log entries of the run that are about a repository
RepoEntries == SelectSeq(log, LAMBDA e : e.repo # "")

\* C21: once the listing has succeeded, the repositories Process loops
\* over are the configured ones, all of them without a filter and
\* otherwise those whose name is in the filter, in configuration order;
\* every request is for one of them, the requests follow that order, and a
\* run that succeeds has installed the bot secret of each of them.
C21_RepositorySelection ==
    (Len(log) >= 1 /\ log[1].op = "list" /\ log[1].ok) =>
        /\ Len(repos) = Cardinality(Selected)
        /\ \A k \in 1..Len(repos) :
                \E i \in Selected :
                    /\ Cardinality({j \in Selected : j < i}) = k - 1
                    /\ repos[k].Name = config.Repos[i].Name
        /\ \A k \in 1..Len(RepoEntries) :
                /\ \E i \in Selected : config.Repos[i].Name = RepoEntries[k].repo
                /\ \A j \in 1..(k - 1) :
                        CfgIndex(RepoEntries[j].repo) <= CfgIndex(RepoEntries[k].repo)
        /\ (pc = "done" /\ result = "ok") =>
                \A i \in Selected : \E k \in 1..Len(log) :
                    /\ log[k].op = "upload" /\ log[k].ok
                    /\ log[k].repo = config.Repos[i].Name
                    /\ log[k].name = "SNAPCRAFTERS_BOT_COMMIT"

\* a successful run whose filter names the two configured repositories in
\* the opposite order, and a repository that is not configured
C21_Witness ==
    /\ pc = "done" /\ result = "ok"
    /\ pFilter = <<"ghost", "app", "cafe", "my-app">>
    /\ Len(repos) = 2 /\ repos[1].Name = "my-app" /\ repos[2].Name = "app"
    /\ \E j, k \in 1..Len(log) :
        /\ j < k
        /\ log[j].op = "upload" /\ log[j].repo = "my-app"
        /\ log[k].op = "upload" /\ log[k].repo = "app"

\* the position of a track name among the tracks of a repository
TrackIndex(tracks, name) == CHOOSE i \in 1..Len(tracks) : tracks[i].Name = name

\* C22: a repository configured without tracks is processed as the one
\* track latest / candidate / "Candidate Branch" and its secrets go to that
\* environment; a repository configured with tracks is processed with those
\* tracks, in their order; the stored configuration stays as it was given.
C22_DefaultTrack ==
    /\ config \in Configs
    /\ (Len(log) >= 1 /\ log[1].op = "list" /\ log[1].ok) =>
         \A k \in 1..Len(repos) :
            LET c == config.Repos[CfgIndex(repos[k].Name)]
                own == SelectSeq(log, LAMBDA e : e.repo = c.Name)
            IN  IF Len(c.Tracks) = 0
                THEN /\ repos[k].Tracks = << [ Name |-> "latest", Branch |-> "candidate",
                                              Environment |-> "Candidate Branch" ] >>
                     /\ \A i \in 1..Len(own) :
                            /\ own[i].track = "latest"
                            /\ own[i].env \in {"", "Candidate Branch"}
                            /\ own[i].op = "upload" => own[i].env = "Candidate Branch"
                            /\ own[i].op = "createPolicy" => own[i].value = Plain("candidate")
                     /\ (pc = "done" /\ result = "ok") =>
                            \A n \in 1..Len(SecretOrder) : \E x \in secrets :
                                /\ x.repo = c.Name /\ x.env = "Candidate Branch"
                                /\ x.secret.Name = SecretOrder[n]
                ELSE /\ repos[k].Tracks = c.Tracks
                     /\ \A i \in 1..Len(own) :
                            /\ \E t \in 1..Len(c.Tracks) :
                                    /\ c.Tracks[t].Name = own[i].track
                                    /\ own[i].env \in {"", c.Tracks[t].Environment}
                            /\ \A j \in 1..(i - 1) :
                                    TrackIndex(c.Tracks, own[j].track)
                                        <= TrackIndex(c.Tracks, own[i].track)
                     /\ (pc = "done" /\ result = "ok") =>
                            \A t \in 1..Len(c.Tracks) : \E i \in 1..Len(own) :
                                /\ own[i].op = "upload" /\ own[i].ok
                                /\ own[i].name = "SNAPCRAFTERS_BOT_COMMIT"
                                /\ own[i].track = c.Tracks[t].Name
                                /\ own[i].env = c.Tracks[t].Environment

\* a successful run over a repository configured without tracks, its four
\* secrets in "Candidate Branch" and the configuration still without tracks
C22_Witness ==
    /\ pc = "done" /\ result = "ok"
    /\ config.Repos[1].Name = "my-app" /\ config.Repos[1].Tracks = <<>>
    /\ repos[1].Name = "my-app" /\ repos[1].Tracks = <<DefaultTrack>>
    /\ Len(Uploads("my-app", "latest")) = 4
    /\ \A n \in 1..4 : \E x \in secrets :
            x.repo = "my-app" /\ x.env = "Candidate Branch" /\ x.secret.Name = SecretOrder[n]

\* C23 as claimed: a delete request for a pair is sent only after, in this
\* order, the run created the pair's new token, approved the request of
\* that token, and uploaded SNAPCRAFTERS_BOT_COMMIT for the pair.
C23_Original ==
    \A d \in 1..Len(log) : log[d].op = "delete" =>
        \E c, a, u \in 1..(d - 1) :
            /\ c < a /\ a < u
            /\ log[c].op = "create" /\ log[c].ok
            /\ log[c].repo = log[d].repo /\ log[c].track = log[d].track
            /\ log[a].op = "approve" /\ log[a].ok
            /\ log[a].repo = log[d].repo /\ log[a].track = log[d].track
            /\ log[a].id = log[c].id
            /\ log[u].op = "upload" /\ log[u].ok /\ log[u].name = "SNAPCRAFTERS_BOT_COMMIT"
            /\ log[u].repo = log[d].repo /\ log[u].track = log[d].track

\* the current run has finished setBotCommitSecret for the pair (r, t):
\* the bot secret is uploaded and the cleanup loop is behind it
Completed(r, t) ==
    /\ \E u \in 1..Len(log) :
        /\ log[u].op = "upload" /\ log[u].ok /\ log[u].name = "SNAPCRAFTERS_BOT_COMMIT"
        /\ log[u].repo = r /\ log[u].track = t
        /\ \/ pc = "done" /\ result = "ok"
           \/ pc # "done" /\ ~(CurRepo.Name = r /\ CurTrack.Name = t)
           \/ \E k \in (u + 1)..Len(log) : ~(log[k].repo = r /\ log[k].track = t)

\* C24 as claimed: once a run has finished the bot-commit step of a pair,
\* no token that an earlier, failed run created for that pair is left on the
\* account (histories in which an earlier run drew the same identifier are
\* left aside here).
C24_Original ==
    (\A i \in 1..Len(tokens) : tokens[i].run < run => tokens[i].rid # mid) =>
        \A p \in Pairs : Completed(p[1], p[2].Name) =>
            \A k \in 1..Len(tokens) :
                ( /\ tokens[k].repo = p[1] /\ tokens[k].track = p[2].Name
                  /\ tokens[k].run \in 1..(run - 1)
                  /\ returned[tokens[k].run] # "ok" )
                => tokens[k].state = "deleted"

\* C29 as claimed: when setBotCommitSecret has succeeded for a pair, the
\* request it approved is the one of the token it created, and that token,
\* whose value is the pair's SNAPCRAFTERS_BOT_COMMIT, is active.
C29_Original ==
    \A p \in Pairs : Completed(p[1], p[2].Name) =>
        \E c, a \in 1..Len(log) :
            /\ log[c].op = "create" /\ log[c].ok
            /\ log[c].repo = p[1] /\ log[c].track = p[2].Name
            /\ log[a].op = "approve" /\ log[a].ok
            /\ log[a].repo = p[1] /\ log[a].track = p[2].Name
            /\ log[a].id = log[c].id
            /\ tokens[log[c].id].state = "active"

\* C32 as claimed: in every configured organisation, a token created by a
\* run is scoped to exactly <org>/<repo> and <org>/ci-screenshots, so the
\* request it raises passes findPATRequest's test for its repository.
C32_Original ==
    \A k \in 1..Len(tokens) : tokens[k].run >= 1 =>
        /\ {tokens[k].Repos[i] : i \in 1..Len(tokens[k].Repos)}
                = {config.Org \o "/" \o tokens[k].repo, config.Org \o "/ci-screenshots"}
        /\ MatchesRequest(config.Org, tokens[k].Repos, tokens[k].repo)

\* C33 as claimed: in one run of Process no listed token is sent two
\* deletion requests, whatever the repositories and tracks are.
C33_Original ==
    \A i, j \in 1..Len(log) :
        (i < j /\ log[i].op = "delete" /\ log[j].op = "delete") => log[i].id # log[j].id

\* C34: the tokens a run may delete are those listed at its start, all of
\* them made before the run; every deletion request of the run is for one
\* of them, never for a token the run itself created.
C34_NoSameRunDeletion ==
    /\ \A i \in 1..Len(pats) : tokens[pats[i].ID].run < run
    /\ \A d \in 1..Len(log) : log[d].op = "delete" =>
            /\ tokens[log[d].id].run < run
            /\ \E i \in 1..Len(pats) : pats[i].ID = log[d].id

\* a run has deleted a listed token while a token it created itself is
\* active on the account
C34_Witness ==
    \E d \in 1..Len(log), k \in 1..Len(tokens) :
        /\ log[d].op = "delete" /\ log[d].ok
        /\ tokens[k].run = run /\ tokens[k].state = "active"
        /\ tokens[log[d].id].state = "deleted"

----------------------------------------------------------------------------
(* The command: src/main.go *)

\* parseCreds' requiredCredentials
RequiredCredentials ==
    { "snapcraft_login", "snapcraft_password", "snapcrafters_org_pat",
      "snapcrafters_bot_login", "snapcrafters_bot_password",
      "app_id", "app_secret", "lp_auth" }

\* the environments the command is started in: every credential set, one
\* of them missing, or none set
Environments ==
    {{}} \cup {{c} : c \in RequiredCredentials} \cup {RequiredCredentials}

\* viper.GetString / GetInt of a credential: the zero value when unset
GetCredential(missing, cred) == IF cred \in missing THEN "" ELSE "set:" \o cred

\* parseCreds: binds the eight variables and reads them; it returns the
\* credentials and a nil error whatever is set
parseCreds(missing) ==
    [ err |-> FALSE,
      creds |-> [c \in RequiredCredentials |-> GetCredential(missing, c)] ]

CmdIdle ==
    /\ cmdPc = "idle"
    /\ cmdMissing = {}
    /\ cmdLog = <<>>
    /\ cmdExit = -1

\* RunE: parseConfig; its error goes back through Execute to main, which
\* logs it and exits with status 1
CmdParseConfig ==
    /\ cmdPc = "config"
    /\ \/ /\ config' \in Configs
          /\ cmdPc' = "creds"
          /\ UNCHANGED <<cmdLog, cmdExit>>
       \/ /\ config' = config
          /\ cmdPc' = "exit"
          /\ cmdLog' = Append(cmdLog, "failed to parse config")
          /\ cmdExit' = 1
    /\ UNCHANGED <<cmdMissing, pc, run, mid, pFilter, repos, ri, ti, pats, ci, pat,
                   result, failed, log, returned>>
    /\ UNCHANGED <<stVars, lVars, srvVars, rcVars, ocVars, psVars, appVars>>

\* RunE: parseCreds
CmdParseCreds ==
    /\ cmdPc = "creds"
    /\ IF parseCreds(cmdMissing).err
       THEN /\ cmdPc' = "exit"
            /\ cmdLog' = Append(cmdLog, "failed to parse credentials")
            /\ cmdExit' = 1
       ELSE /\ cmdPc' = "manager"
            /\ UNCHANGED <<cmdLog, cmdExit>>
    /\ UNCHANGED <<cmdMissing, runVars, stVars, lVars, srvVars, rcVars, ocVars, psVars, appVars>>

\* RunE: NewManager and the call of Process with the --repos flag
CmdProcess ==
    /\ cmdPc = "manager"
    /\ pc = "idle"
    /\ Start

\* what follows Process's return in RunE and main: the error is logged
\* and RunE returns nil, so Execute returns nil and main ends normally;
\* a panic ends the process with status 2
RunEReturn(res) ==
    CASE res = "panic" -> [logged |-> <<>>, exit |-> 2]
      [] res = "err" -> [logged |-> <<"process error">>, exit |-> 0]
      [] OTHER -> [logged |-> <<>>, exit |-> 0]

\* Process has returned (or panicked): the rest of RunE and of main
CmdExit ==
    /\ cmdPc = "manager"
    /\ pc = "done"
    /\ cmdPc' = "exit"
    /\ cmdLog' = cmdLog \o RunEReturn(result).logged
    /\ cmdExit' = RunEReturn(result).exit
    /\ UNCHANGED <<cmdMissing, runVars, stVars, lVars, srvVars, rcVars, ocVars, psVars, appVars>>

NextCmd ==
    \/ CmdParseConfig
    \/ CmdParseCreds
    \/ CmdProcess
    \/ ListPATs
    \/ StoreSecret
    \/ LaunchpadSecret
    \/ CreatePAT
    \/ ApprovePAT
    \/ BotSecret
    \/ Cleanup
    \/ CmdExit

----------------------------------------------------------------------------
(* Properties of the command *)

\* C15 as claimed: an error returned by Process is logged and the exit
\* status is not zero; status zero means Process returned success.
C15_Original ==
    cmdPc = "exit" =>
        /\ result = "err" => (cmdExit # 0 /\ cmdLog # <<>>)
        /\ cmdExit = 0 => result = "ok"

\* C16 as claimed: with a required credential not set the run ends with
\* an error before the Manager is built and before any request is issued.
C16_Original ==
    cmdMissing # {} =>
        /\ run = 0
        /\ log = <<>>
        /\ cmdPc = "exit" => cmdExit # 0

----------------------------------------------------------------------------
(* Specifications *)

NoListing == lPages = <<>> /\ lFilter = ""

\* Up to MaxRuns runs of the Manager, one after the other, on one account.
Init ==
    /\ ProcIdle
    /\ config \in Configs
    /\ StoreIdle /\ ListIdle /\ NoListing
    /\ RepoIdle /\ OrgIdle /\ CmdIdle /\ PsIdle /\ AppIdle
Spec == Init /\ [][Next]_vars

\* One GenerateStoreToken call.
InitStore ==
    /\ StoreIdle /\ ListIdle /\ NoListing /\ ProcIdle /\ config = <<>>
    /\ RepoIdle /\ OrgIdle /\ CmdIdle /\ PsIdle /\ AppIdle
SpecStore == InitStore /\ [][NextStore]_vars

\* One List call against every listing of up to MaxPages pages.
InitList ==
    /\ StoreIdle /\ ProcIdle /\ config = <<>> /\ ListIdle
    /\ lPages \in UNION {Listings(n) : n \in 1..MaxPages}
    /\ lFilter \in ListFilters
    /\ RepoIdle /\ OrgIdle /\ CmdIdle /\ PsIdle /\ AppIdle
SpecList == InitList /\ [][NextList]_vars

\* Up to MaxCalls SetEnvSecret calls of one RepoClient.
InitRepo ==
    /\ StoreIdle /\ ListIdle /\ NoListing /\ ProcIdle /\ config = <<>>
    /\ RepoIdle /\ OrgIdle /\ CmdIdle /\ PsIdle /\ AppIdle
SpecRepo == InitRepo /\ [][NextRepo]_vars

\* One ApprovePATRequest call against every list of up to MaxRequests
\* pending requests.
InitOrg ==
    /\ StoreIdle /\ ListIdle /\ NoListing /\ ProcIdle /\ config = <<>>
    /\ RepoIdle /\ CmdIdle /\ PsIdle /\ AppIdle
    /\ ocPc = "idle" /\ ocRepo = "" /\ ocReqs = <<>> /\ ocIdx = 0
    /\ ocFetched = <<>> /\ ocReviews = <<>> /\ ocResult = "none"
    /\ ocPending \in PendingListings(MaxRequests)
SpecOrg == InitOrg /\ [][NextOrg]_vars

\* One execution of the command, in every environment of Environments.
InitCmd ==
    /\ StoreIdle /\ ListIdle /\ NoListing /\ ProcIdle /\ config = <<>>
    /\ RepoIdle /\ OrgIdle /\ PsIdle /\ AppIdle
    /\ cmdPc = "config"
    /\ cmdMissing \in Environments
    /\ cmdLog = <<>>
    /\ cmdExit = -1
SpecCmd == InitCmd /\ [][NextCmd]_vars

\* Up to MaxOps operations of one PATClient, one after the other.
InitPs ==
    /\ StoreIdle /\ ListIdle /\ NoListing /\ ProcIdle /\ config = <<>>
    /\ RepoIdle /\ OrgIdle /\ CmdIdle /\ PsIdle /\ AppIdle
SpecPs == InitPs /\ [][NextPs]_vars

\* Up to MaxApprovals ApprovePATRequest calls on one OrgClient, as far as
\* oc.client() and GetAppToken go.
InitApp ==
    /\ StoreIdle /\ ListIdle /\ NoListing /\ ProcIdle /\ config = <<>>
    /\ RepoIdle /\ OrgIdle /\ CmdIdle /\ PsIdle /\ AppIdle
SpecApp == InitApp /\ [][NextApp]_vars

====
